---- MODULE Spec2Model ----
(***************************************************************************)
(* Group2Coin ledger engine: Transaction, Block, Blockchain (chain + pool  *)
(* + mining + validation) over the sqlite-backed Database (blocks,         *)
(* transactions and accounts tables).                                      *)
(***************************************************************************)
EXTENDS Integers, Sequences, FiniteSets, TLC

(***************************************************************************)
(* Bounds of the model.                                                    *)
(***************************************************************************)
\* largest number of operations in a behaviour
MaxSteps == 5
\* number of leading characters of a digest that are modelled character by character
HashDigits == 2
\* number of values a modelled digest character takes ('0' is one of them)
Radix == 4

(***************************************************************************)
(* Program constants.                                                      *)
(***************************************************************************)
mining_reward == 50
InitDifficulty == 2

\* Python None / absent values of the differently typed fields
NoKey == "None"
NoSig == <<>>
NoTime == 0
NoNonce == 0

\* wallets: private key -> public key (generate_key_pair)
PrivateKeys == {"privA", "privB"}
PublicOf(priv) == IF priv = "privA" THEN "pubA" ELSE "pubB"
Amounts == {10, 30}
Miners == {"addrA"}
\* difficulties requested through the HTTP route
RouteDifficulties == {0, 1, 11}

VARIABLES
    db,          \* the committed content of blockchain.db: blocks, transactions, accounts
    pending,     \* Blockchain.pending_transactions
    difficulty,  \* Blockchain.difficulty
    now,         \* time.time(), in units of the time one proof-of-work search takes
    last,        \* the last operation and what it returned
    steps,       \* the number of operations so far
    threads,     \* the calls in progress in the request threads, and the last query's answer
    contracts,   \* SmartContractManager.contracts, in insertion order
    tours,       \* TravelManager.tours, in insertion order
    bookings     \* TravelManager.bookings, in insertion order

vars == <<db, pending, difficulty, now, last, steps, threads, contracts, tours, bookings>>

(***************************************************************************)
(* utils/crypto.py                                                         *)
(***************************************************************************)
RECURSIVE SeqSum(_)
SeqSum(s) == IF s = <<>> THEN 0 ELSE Head(s) + SeqSum(Tail(s))

RECURSIVE Pow(_)
Pow(n) == IF n = 0 THEN 1 ELSE Radix * Pow(n - 1)

\* numeric content of the strings that occur in hashed data
StrCode(s) ==
    CASE s = "GENESIS" -> 1
      [] s = "MINING_REWARD" -> 2
      [] s = "addrA" -> 3
      [] s = "addrB" -> 4
      [] s = "pubA" -> 5
      [] s = "pubB" -> 6
      [] s = "privA" -> 7
      [] s = "privB" -> 8
      [] s = "GENESIS_KEY" -> 9
      [] OTHER -> 10

\* hashlib.sha256(json.dumps(data, sort_keys=True)).hexdigest(): the first HashDigits
\* characters are computed from the numeric content `weight` of the data, the
\* remaining characters are determined by the data itself (no two data collide).
calculate_hash(weight, data) ==
    [digits |-> [i \in 1..HashDigits |-> (weight \div Pow(i - 1)) % Radix],
     of     |-> data]

\* private_key.sign(json.dumps(data, sort_keys=True)): a signature is bound to the
\* signing key and to the signed bytes
sign_data(private_key, data) == <<private_key, data>>

\* public_key.verify(signature, data): True iff the signature was made over the same
\* bytes by the private key of this public key; every exception gives False
verify_signature(public_key, data, signature) ==
    /\ public_key \in {PublicOf(k) : k \in PrivateKeys}
    /\ Len(signature) = 2
    /\ signature[1] \in PrivateKeys
    /\ PublicOf(signature[1]) = public_key
    /\ signature[2] = data

\* calculate_hash(public_key)[:40]
generate_address(public_key) ==
    CASE public_key = "pubA" -> "addrA"
      [] public_key = "pubB" -> "addrB"
      [] OTHER -> "addrX"

(***************************************************************************)
(* blockchain/transaction.py                                               *)
(***************************************************************************)
\* Transaction.__init__; t is time.time() and u the fresh uuid4 of this call
Transaction(sender_address, recipient, amount, public_key, signature, timestamp, nonce, t, u) ==
    [sender     |-> sender_address,
     recipient  |-> recipient,
     amount     |-> amount,
     public_key |-> public_key,
     signature  |-> signature,
     timestamp  |-> IF timestamp # NoTime THEN timestamp ELSE t,
     nonce      |-> IF nonce # NoNonce THEN nonce ELSE u]

\* Transaction.to_dict
to_dict(tx) ==
    [sender     |-> tx.sender,
     recipient  |-> tx.recipient,
     amount     |-> tx.amount,
     public_key |-> tx.public_key,
     timestamp  |-> tx.timestamp,
     signature  |-> tx.signature,
     nonce      |-> tx.nonce]

\* the dictionary that is hashed, signed and verified: every field but the signature
transaction_data(tx) ==
    [sender     |-> tx.sender,
     recipient  |-> tx.recipient,
     amount     |-> tx.amount,
     public_key |-> tx.public_key,
     timestamp  |-> tx.timestamp,
     nonce      |-> tx.nonce]

DataWeight(d) ==
    StrCode(d.sender) + 2 * StrCode(d.recipient) + d.amount + StrCode(d.public_key)
        + 3 * d.timestamp + 5 * d.nonce

SigWeight(sig) == IF sig = NoSig THEN 0 ELSE 1 + StrCode(sig[1])

\* Transaction.calculate_hash
tx_calculate_hash(tx) == calculate_hash(DataWeight(transaction_data(tx)), transaction_data(tx))

\* Transaction.sign_transaction
sign_transaction(tx, private_key) ==
    IF tx.sender = "MINING_REWARD"
    THEN tx
    ELSE [tx EXCEPT !.signature = sign_data(private_key, transaction_data(tx))]

\* is_valid without the comparison of the public key's address with the sender
is_valid_NoAddressCheck(tx) ==
    IF tx.sender = "MINING_REWARD" THEN TRUE
    ELSE IF tx.signature = NoSig \/ tx.public_key = NoKey THEN FALSE
    ELSE verify_signature(tx.public_key, transaction_data(tx), tx.signature)

\* Transaction.is_valid
is_valid(tx) ==
    IF tx.sender = "MINING_REWARD" THEN TRUE
    ELSE IF tx.signature = NoSig \/ tx.public_key = NoKey THEN FALSE
    ELSE IF generate_address(tx.public_key) # tx.sender THEN FALSE
    ELSE verify_signature(tx.public_key, transaction_data(tx), tx.signature)

(***************************************************************************)
(* blockchain/block.py                                                     *)
(***************************************************************************)
\* the literal '0' that the genesis block has as its previous hash
ZeroHash == [digits |-> <<0>>, of |-> <<>>]

HexWeight(h) == SeqSum([i \in 1..Len(h.digits) |-> h.digits[i] * Pow(i - 1)])

\* Block.calculate_hash over a block's fields
block_calculate_hash(index, transactions, previous_hash, timestamp, nonce) ==
    LET dicts == [i \in 1..Len(transactions) |-> to_dict(transactions[i])]
        weight == 7 * index
                    + SeqSum([i \in 1..Len(dicts) |->
                                  i * (DataWeight(dicts[i]) + SigWeight(dicts[i].signature))])
                    + HexWeight(previous_hash) + 3 * timestamp + nonce
    IN  calculate_hash(weight,
                       [index |-> index, transactions |-> dicts,
                        previous_hash |-> previous_hash, timestamp |-> timestamp,
                        nonce |-> nonce])

\* Block.__init__; t is time.time()
Block(index, transactions, previous_hash, timestamp, nonce, t) ==
    LET ts == IF timestamp # NoTime THEN timestamp ELSE t
    IN  [index         |-> index,
         transactions  |-> transactions,
         previous_hash |-> previous_hash,
         timestamp     |-> ts,
         nonce         |-> nonce,
         hash          |-> block_calculate_hash(index, transactions, previous_hash, ts, nonce)]

\* self.hash[:difficulty] == '0' * difficulty
MeetsTarget(hash, d) ==
    SubSeq(hash.digits, 1, d) = [i \in 1..d |-> 0]

\* mine_block comparing one character too few
RECURSIVE mine_block_ShortTarget(_, _)
mine_block_ShortTarget(block, d) ==
    IF MeetsTarget(block.hash, d - 1)
    THEN block
    ELSE mine_block_ShortTarget(
             [block EXCEPT !.nonce = @ + 1,
                           !.hash = block_calculate_hash(block.index, block.transactions,
                                        block.previous_hash, block.timestamp, block.nonce + 1)],
             d)

\* the loop body adding two to the nonce
mine_block_step_SkipOne(block) ==
    [block EXCEPT !.nonce = @ + 2,
                  !.hash = block_calculate_hash(block.index, block.transactions,
                               block.previous_hash, block.timestamp, block.nonce + 2)]

\* the body of mine_block's loop: one more on the nonce, and the hash of the block
\* with that nonce
mine_block_step(block) ==
    [block EXCEPT !.nonce = @ + 1,
                  !.hash = block_calculate_hash(block.index, block.transactions,
                               block.previous_hash, block.timestamp, block.nonce + 1)]

\* mine_block testing its loop condition after the body instead of before it
RECURSIVE mine_block_DoWhile(_, _)
mine_block_DoWhile(block, d) ==
    IF MeetsTarget(mine_block_step(block).hash, d)
    THEN mine_block_step(block)
    ELSE mine_block_DoWhile(mine_block_step(block), d)

\* Block.mine_block
RECURSIVE mine_block(_, _)
mine_block(block, d) ==
    IF MeetsTarget(block.hash, d)
    THEN block
    ELSE mine_block(
             [block EXCEPT !.nonce = @ + 1,
                           !.hash = block_calculate_hash(block.index, block.transactions,
                                        block.previous_hash, block.timestamp, block.nonce + 1)],
             d)

(***************************************************************************)
(* utils/database.py                                                       *)
(***************************************************************************)
\* Database.init_db on a new file: the three ledger tables, all empty
EmptyDb == [blocks |-> {}, transactions |-> {}, accounts |-> <<>>]

\* one cursor.execute of save_block on the connection's open transaction
Exec(d, stmt) ==
    CASE stmt[1] = "insert_block" ->
            \* INSERT OR IGNORE INTO blocks: block_index is the primary key
            IF \E r \in d.blocks : r.block_index = stmt[2].block_index
            THEN d
            ELSE [d EXCEPT !.blocks = @ \cup {stmt[2]}]
      [] stmt[1] = "insert_tx" ->
            \* INSERT OR IGNORE INTO transactions: tx_hash is the primary key
            IF \E r \in d.transactions : r.tx_hash = stmt[2].tx_hash
            THEN d
            ELSE [d EXCEPT !.transactions = @ \cup {stmt[2]}]
      [] stmt[1] = "debit" ->
            \* INSERT INTO accounts VALUES (sender, -amount) ON CONFLICT balance - amount
            IF stmt[2] \in DOMAIN d.accounts
            THEN [d EXCEPT !.accounts[stmt[2]] = @ - stmt[3]]
            ELSE [d EXCEPT !.accounts = @ @@ (stmt[2] :> (0 - stmt[3]))]
      [] stmt[1] = "credit" ->
            \* INSERT INTO accounts VALUES (recipient, amount) ON CONFLICT balance + amount
            IF stmt[2] \in DOMAIN d.accounts
            THEN [d EXCEPT !.accounts[stmt[2]] = @ + stmt[3]]
            ELSE [d EXCEPT !.accounts = @ @@ (stmt[2] :> stmt[3])]

\* save_block deducting from every sender, the sentinels included
TxStatements_DebitAlways(tx, block_index) ==
    << <<"insert_tx", [tx_hash     |-> tx_calculate_hash(tx),
                       sender      |-> tx.sender,
                       recipient   |-> tx.recipient,
                       amount      |-> tx.amount,
                       timestamp   |-> tx.timestamp,
                       signature   |-> tx.signature,
                       block_index |-> block_index]>>,
       <<"debit", tx.sender, tx.amount>>,
       <<"credit", tx.recipient, tx.amount>> >>

\* the statements save_block executes for one transaction of the block
TxStatements(tx, block_index) ==
    << <<"insert_tx", [tx_hash     |-> tx_calculate_hash(tx),
                       sender      |-> tx.sender,
                       recipient   |-> tx.recipient,
                       amount      |-> tx.amount,
                       timestamp   |-> tx.timestamp,
                       signature   |-> tx.signature,
                       block_index |-> block_index]>> >>
    \o (IF tx.sender # "GENESIS" /\ tx.sender # "MINING_REWARD"
        THEN << <<"debit", tx.sender, tx.amount>> >>
        ELSE <<>>)
    \o << <<"credit", tx.recipient, tx.amount>> >>

RECURSIVE AllTxStatements(_, _)
AllTxStatements(txs, block_index) ==
    IF txs = <<>> THEN <<>>
    ELSE TxStatements(Head(txs), block_index) \o AllTxStatements(Tail(txs), block_index)

\* the statements of save_block, in execution order
Statements(block) ==
    << <<"insert_block", [block_index       |-> block.index,
                          hash              |-> block.hash,
                          previous_hash     |-> block.previous_hash,
                          timestamp         |-> block.timestamp,
                          nonce             |-> block.nonce,
                          transactions_json |-> [i \in 1..Len(block.transactions) |->
                                                     to_dict(block.transactions[i])]]>> >>
    \o AllTxStatements(block.transactions, block.index)

\* the connection's view after the first n statements have been executed
RECURSIVE Run(_, _, _)
Run(d, stmts, n) ==
    IF n = 0 THEN d ELSE Exec(Run(d, stmts, n - 1), stmts[n])

\* conn.commit(): the open transaction becomes the committed content
Commit(committed, working) == working

\* every statement committed on its own: what was executed before the fault stays
Rollback_KeepsExecuted(committed, working) == working

\* conn.rollback(), and sqlite's recovery after a crash: the open transaction is dropped
Rollback(committed, working) == committed

\* the faults of one save_block call: none, an exception raised by statement `at`
\* or the process dying there; the points are the insert of the block row, the
\* statement after it, the last balance update and conn.commit() (Len + 1)
Faults(block) ==
    LET n == Len(Statements(block))
    IN  {[kind |-> "none", at |-> 0]}
        \cup [kind : {"error", "crash"}, at : {1, 2, n, n + 1}]

\* save_block returning False without conn.rollback(): the statements executed before
\* the fault stay in the store
save_block_NoRollback(d, block, fault) ==
    LET stmts == Statements(block)
    IN  IF fault.kind = "none"
        THEN [db |-> Commit(d, Run(d, stmts, Len(stmts))), ok |-> TRUE]
        ELSE [db |-> Run(d, stmts, fault.at - 1), ok |-> FALSE]

\* Database.save_block: the committed content afterwards and the value returned
save_block(d, block, fault) ==
    LET stmts == Statements(block)
    IN  IF fault.kind = "none"
        THEN [db |-> Commit(d, Run(d, stmts, Len(stmts))), ok |-> TRUE]
        ELSE [db |-> Rollback(d, Run(d, stmts, fault.at - 1)), ok |-> FALSE]

\* Database.get_chain: SELECT * FROM blocks ORDER BY block_index ASC
RECURSIVE OrderByIndex(_)
OrderByIndex(rows) ==
    IF rows = {} THEN <<>>
    ELSE LET first == CHOOSE r \in rows : \A q \in rows : r.block_index <= q.block_index
         IN  <<first>> \o OrderByIndex(rows \ {first})

get_chain(d) == OrderByIndex(d.blocks)

\* Database.get_last_block: ORDER BY block_index DESC LIMIT 1, None on an empty table
HasBlocks(d) == d.blocks # {}
get_last_block(d) == CHOOSE r \in d.blocks : \A q \in d.blocks : q.block_index <= r.block_index

\* Database.get_balance
db_get_balance(d, address) ==
    IF address \in DOMAIN d.accounts THEN d.accounts[address] ELSE 0

(***************************************************************************)
(* blockchain/blockchain.py                                                *)
(***************************************************************************)
\* the transaction nonces that exist in the pool and in the stored blocks
UsedNonces(d, pool) ==
    {pool[i].nonce : i \in 1..Len(pool)}
    \cup UNION {{r.transactions_json[i].nonce : i \in 1..Len(r.transactions_json)} : r \in d.blocks}

\* str(uuid.uuid4()): a token that no existing transaction carries
uuid4(d, pool) ==
    CHOOSE n \in 1..(Cardinality(UsedNonces(d, pool)) + 1) :
        /\ n \notin UsedNonces(d, pool)
        /\ \A m \in 1..(n - 1) : m \in UsedNonces(d, pool)

\* the Transaction objects rebuilt from a row's transactions_json
LoadTransactions(row, t, u) ==
    [i \in 1..Len(row.transactions_json) |->
        LET tx_data == row.transactions_json[i]
        IN  Transaction(tx_data.sender, tx_data.recipient, tx_data.amount, tx_data.public_key,
                        tx_data.signature, tx_data.timestamp, tx_data.nonce, t, u)]

\* the Block object rebuilt without the stored proof-of-work nonce
LoadBlock_NonceLost(row, t, u) ==
    Block(row.block_index, LoadTransactions(row, t, u), row.previous_hash,
          row.timestamp, 0, t)

\* the Block object rebuilt from a row (its hash is recomputed by Block.__init__)
LoadBlock(row, t, u) ==
    Block(row.block_index, LoadTransactions(row, t, u), row.previous_hash,
          row.timestamp, row.nonce, t)

\* Blockchain.get_latest_block
get_latest_block(d, t, u) == LoadBlock(get_last_block(d), t, u)

\* create_genesis_block with a genesis transaction that carries an amount
create_genesis_block_Funded(d, t, u) ==
    LET genesis_transaction ==
            Transaction("GENESIS", "GENESIS", mining_reward, "GENESIS_KEY", NoSig, NoTime,
                        NoNonce, t, u)
        genesis_block == Block(0, <<genesis_transaction>>, ZeroHash, NoTime, 0, t)
    IN  save_block(d, genesis_block, [kind |-> "none", at |-> 0]).db

\* Blockchain.create_genesis_block
create_genesis_block(d, t, u) ==
    LET genesis_transaction ==
            Transaction("GENESIS", "GENESIS", 0, "GENESIS_KEY", NoSig, NoTime, NoNonce, t, u)
        genesis_block == Block(0, <<genesis_transaction>>, ZeroHash, NoTime, 0, t)
    IN  save_block(d, genesis_block, [kind |-> "none", at |-> 0]).db

\* Blockchain.__init__ on the store d: the store afterwards
BlockchainInit(d, t, u) ==
    IF ~HasBlocks(d) THEN create_genesis_block(d, t, u) ELSE d

\* Blockchain.get_balance
get_balance(d, address) == db_get_balance(d, address)

\* the pending_spend loop of add_transaction
RECURSIVE pending_spend(_, _)
pending_spend(pool, sender) ==
    IF pool = <<>> THEN 0
    ELSE (IF Head(pool).sender = sender THEN Head(pool).amount ELSE 0)
            + pending_spend(Tail(pool), sender)

\* Blockchain.add_transaction: the message printed when it returns False
RejectReason(d, pool, transaction) ==
    IF ~is_valid(transaction) THEN "invalid"
    ELSE IF /\ transaction.sender # "MINING_REWARD"
            /\ get_balance(d, transaction.sender) - pending_spend(pool, transaction.sender)
                   < transaction.amount
         THEN "insufficient"
         ELSE "none"

\* add_transaction without the pending-spend netting
Admits_NoNetting(d, pool, transaction) ==
    IF ~is_valid(transaction) THEN FALSE
    ELSE IF /\ transaction.sender # "MINING_REWARD"
            /\ get_balance(d, transaction.sender) < transaction.amount
         THEN FALSE
         ELSE TRUE

\* add_transaction applying the balance check to MINING_REWARD senders as well
Admits_NoExemption(d, pool, transaction) ==
    IF ~is_valid(transaction) THEN FALSE
    ELSE IF get_balance(d, transaction.sender) - pending_spend(pool, transaction.sender)
                < transaction.amount
         THEN FALSE
         ELSE TRUE

\* add_transaction refusing amounts that are not positive
Admits_PositiveOnly(d, pool, transaction) ==
    IF ~is_valid(transaction) THEN FALSE
    ELSE IF transaction.amount <= 0 THEN FALSE
    ELSE IF /\ transaction.sender # "MINING_REWARD"
            /\ get_balance(d, transaction.sender) - pending_spend(pool, transaction.sender)
                   < transaction.amount
         THEN FALSE
         ELSE TRUE

\* Blockchain.add_transaction: the value returned
Admits(d, pool, transaction) ==
    IF ~is_valid(transaction) THEN FALSE
    ELSE IF /\ transaction.sender # "MINING_REWARD"
            /\ get_balance(d, transaction.sender) - pending_spend(pool, transaction.sender)
                   < transaction.amount
         THEN FALSE
         ELSE TRUE

\* add_transaction appending before the balance check
add_transaction_AppendFirst(d, pool, transaction) ==
    IF is_valid(transaction) THEN Append(pool, transaction) ELSE pool

\* Blockchain.add_transaction: the pool afterwards
add_transaction(d, pool, transaction) ==
    IF Admits(d, pool, transaction) THEN Append(pool, transaction) ELSE pool

\* Blockchain.is_chain_valid
is_chain_valid(d) ==
    LET chain_data == get_chain(d)
    IN  \A i \in 2..Len(chain_data) : chain_data[i].previous_hash = chain_data[i - 1].hash

\* mine_pending_transactions putting the reward transaction in front of the pool
BuildBlock_RewardFirst(d, pool, diff, mining_reward_address, t, u) ==
    LET reward_transaction ==
            Transaction("MINING_REWARD", mining_reward_address, mining_reward,
                        NoKey, NoSig, NoTime, NoNonce, t, u)
        pool1 == <<reward_transaction>> \o pool
        latest_block == get_latest_block(d, t, u)
        new_block == Block(latest_block.index + 1, pool1, latest_block.hash, NoTime, 0, t)
    IN  [pool |-> pool1, block |-> mine_block(new_block, diff)]

\* mine_pending_transactions linking the new block to the tip's previous_hash
BuildBlock_WrongLink(d, pool, diff, mining_reward_address, t, u) ==
    LET reward_transaction ==
            Transaction("MINING_REWARD", mining_reward_address, mining_reward,
                        NoKey, NoSig, NoTime, NoNonce, t, u)
        pool1 == Append(pool, reward_transaction)
        latest_block == get_latest_block(d, t, u)
        new_block == Block(latest_block.index + 1, pool1, latest_block.previous_hash,
                           NoTime, 0, t)
    IN  [pool |-> pool1, block |-> mine_block(new_block, diff)]

\* mine_pending_transactions giving the new block the index of the tip
BuildBlock_SameIndex(d, pool, diff, mining_reward_address, t, u) ==
    LET reward_transaction ==
            Transaction("MINING_REWARD", mining_reward_address, mining_reward,
                        NoKey, NoSig, NoTime, NoNonce, t, u)
        pool1 == Append(pool, reward_transaction)
        latest_block == get_latest_block(d, t, u)
        new_block == Block(latest_block.index, pool1, latest_block.hash, NoTime, 0, t)
    IN  [pool |-> pool1, block |-> mine_block(new_block, diff)]

\* Blockchain.mine_pending_transactions up to the save: the pool with the reward
\* appended and the mined block
BuildBlock(d, pool, diff, mining_reward_address, t, u) ==
    LET reward_transaction ==
            Transaction("MINING_REWARD", mining_reward_address, mining_reward,
                        NoKey, NoSig, NoTime, NoNonce, t, u)
        pool1 == Append(pool, reward_transaction)
        latest_block == get_latest_block(d, t, u)
        new_block == Block(latest_block.index + 1, pool1, latest_block.hash, NoTime, 0, t)
    IN  [pool |-> pool1, block |-> mine_block(new_block, diff)]

\* mine_pending_transactions clearing the pool whether or not the save succeeded
PoolAfterMine_AlwaysClear(pool1, success) == <<>>

\* Blockchain.mine_pending_transactions after the save: the pool afterwards
PoolAfterMine(pool1, success) == IF success THEN <<>> ELSE pool1

\* what mine_pending_transactions returns: the block, or None
MineReturn(success) == IF success THEN "block" ELSE "none"

(***************************************************************************)
(* The transactions that callers submit.                                   *)
(***************************************************************************)
Addresses == {generate_address(PublicOf(k)) : k \in PrivateKeys}

\* the stored transactions, as Blockchain.chain rebuilds them
ChainTransactions(d, t, u) ==
    UNION {{LoadTransactions(r, t, u)[i] : i \in 1..Len(r.transactions_json)} : r \in d.blocks}

Submitted(d, pool, t, u) ==
    LET new(s, r, a, pk) == Transaction(s, r, a, pk, NoSig, NoTime, NoNonce, t, u)
    IN  \* NodeService.create_transaction: any sender address, the key pair of private_key
        {sign_transaction(new(sr[1], sr[2], a, PublicOf(k)), k) :
            sr \in {p \in Addresses \X Addresses : p[1] # p[2]},
            a \in Amounts, k \in PrivateKeys}
        \* never signed
        \cup {new("addrA", "addrB", 10, "pubA")}
        \* the sender's public key, signed with somebody else's private key
        \cup {sign_transaction(new("addrA", "addrB", 10, "pubA"), "privB")}
        \* amount changed after signing
        \cup {[sign_transaction(new("addrA", "addrB", 10, "pubA"), "privA") EXCEPT !.amount = 30]}
        \* routes.py create_transaction: no public key
        \cup {sign_transaction(new("addrA", "addrB", 10, NoKey), "privA")}
        \* a caller naming MINING_REWARD as the sender
        \cup {new("MINING_REWARD", "addrB", 30, NoKey)}
        \* a transaction that is already pending or already mined, submitted again
        \cup {pool[i] : i \in 1..Len(pool)}
        \cup ChainTransactions(d, t, u)

(***************************************************************************)
(* The state machine.                                                      *)
(***************************************************************************)
\* the request threads that call add_transaction
AddThreads == {1, 2}

\* no call in progress; `work` is what the shared sqlite connection shows, `seen`
\* the answers of the last query (none yet)
NoCalls ==
    [add  |-> [i \in AddThreads |->
                  [pc |-> "idle", tx |-> <<>>, balance |-> 0, spend |-> 0,
                   ok |-> FALSE, during |-> FALSE]],
     mine |-> [pc |-> "idle", reward |-> <<>>, block |-> <<>>, work |-> EmptyDb],
     seen |-> <<>>]

Init ==
    /\ now = 1
    /\ db = BlockchainInit(EmptyDb, 1, 1)
    /\ pending = <<>>
    /\ difficulty = InitDifficulty
    /\ last = [op |-> "init", result |-> "ok", why |-> "none", at |-> 0]
    /\ steps = 0
    /\ threads = NoCalls
    /\ contracts = <<>>
    /\ tours = <<>>
    /\ bookings = <<>>

\* Blockchain.add_transaction(transaction)
AddTransaction ==
    /\ \E transaction \in Submitted(db, pending, now, uuid4(db, pending)) :
        /\ pending' = add_transaction(db, pending, transaction)
        /\ last' = [op |-> "add",
                    result |-> IF Admits(db, pending, transaction) THEN "true" ELSE "false",
                    why |-> RejectReason(db, pending, transaction),
                    at |-> 0]
    /\ UNCHANGED <<db, difficulty, now, threads>>

\* Blockchain.mine_pending_transactions(mining_reward_address); a crash is followed
\* by the restart of the process (create_app). The clock is read when the reward
\* transaction and the block are built and has advanced when the block is stored.
MinePendingTransactions ==
    /\ difficulty \in 0..HashDigits
    /\ \E mining_reward_address \in Miners :
        LET built == BuildBlock(db, pending, difficulty, mining_reward_address,
                                now, uuid4(db, pending))
        IN  \E fault \in Faults(built.block) :
                LET saved == save_block(db, built.block, fault)
                IN  /\ IF fault.kind = "crash"
                       THEN /\ db' = BlockchainInit(saved.db, now, uuid4(saved.db, <<>>))
                            /\ pending' = <<>>
                            /\ difficulty' = InitDifficulty
                       ELSE /\ db' = saved.db
                            /\ pending' = PoolAfterMine(built.pool, saved.ok)
                            /\ UNCHANGED difficulty
                    /\ last' = [op |-> "mine",
                                result |-> IF fault.kind = "crash" THEN "crash"
                                           ELSE MineReturn(saved.ok),
                                why |-> IF fault.kind = "crash" THEN "crash"
                                        ELSE IF saved.ok THEN "saved" ELSE "save_failed",
                                at |-> fault.at]
                    /\ now' = IF fault.kind = "none" THEN now + 1 ELSE now
    /\ UNCHANGED threads

\* routes.py set_difficulty (POST /blockchain/difficulty)
RouteSetDifficulty ==
    /\ \E d \in RouteDifficulties :
        IF d = 0
        THEN /\ last' = [op |-> "route_difficulty", result |-> "400", why |-> "none", at |-> 0]
             /\ UNCHANGED difficulty
        ELSE IF d < 1 \/ d > 10
        THEN /\ last' = [op |-> "route_difficulty", result |-> "400", why |-> "none", at |-> 0]
             /\ UNCHANGED difficulty
        ELSE /\ difficulty' = d
             /\ last' = [op |-> "route_difficulty", result |-> "200", why |-> "none", at |-> 0]
    /\ UNCHANGED <<db, pending, now, threads>>

Next ==
    /\ steps < MaxSteps
    /\ steps' = steps + 1
    /\ UNCHANGED <<contracts, tours, bookings>>
    /\ \/ AddTransaction
       \/ MinePendingTransactions
       \/ RouteSetDifficulty

Spec == Init /\ [][Next]_vars

(***************************************************************************)
(* Out-of-band mutation of the store (somebody edits blockchain.db).       *)
(***************************************************************************)
\* the row with one of its nonce, hash or previous_hash columns changed
Tampered(row, field) ==
    CASE field = "nonce" -> [row EXCEPT !.nonce = @ + 1]
      [] field = "hash" ->
            [row EXCEPT !.hash = block_calculate_hash(row.block_index, <<>>, row.previous_hash,
                                                      row.timestamp, row.nonce + 1)]
      [] field = "previous_hash" -> [row EXCEPT !.previous_hash = ZeroHash]

Tamper ==
    /\ \E row \in {r \in db.blocks : r.block_index >= 1} :
        \E field \in {"nonce", "hash", "previous_hash"} :
            /\ db' = [db EXCEPT !.blocks = (@ \ {row}) \cup {Tampered(row, field)}]
            /\ last' = [op |-> "tamper", result |-> field, why |-> "none",
                        at |-> row.block_index]
    /\ UNCHANGED <<pending, difficulty, now, threads>>

NextTamper ==
    /\ steps < MaxSteps
    /\ steps' = steps + 1
    /\ UNCHANGED <<contracts, tours, bookings>>
    /\ \/ AddTransaction
       \/ MinePendingTransactions
       \/ RouteSetDifficulty
       \/ Tamper

SpecTamper == Init /\ [][NextTamper]_vars

(***************************************************************************)
(* Properties.                                                             *)
(***************************************************************************)
Chain == get_chain(db)
Balance(address) == get_balance(db, address)

\* every name that sends or receives in the pool or the chain, and every wallet
Names ==
    Addresses \cup {"GENESIS", "MINING_REWARD"} \cup DOMAIN db.accounts
    \cup {pending[i].sender : i \in 1..Len(pending)}
    \cup {pending[i].recipient : i \in 1..Len(pending)}

\* the number of '0' characters a digest starts with (among the modelled ones)
RECURSIVE LeadingZeros(_)
LeadingZeros(digits) ==
    IF digits = <<>> \/ Head(digits) # 0 THEN 0 ELSE 1 + LeadingZeros(Tail(digits))

\* this step is operation op returning result
Did(op, result) == steps' # steps /\ last'.op = op /\ last'.result = result

\* C1: for every sender other than MINING_REWARD the amounts it has pending sum to at
\* most its confirmed balance, in every state reached by add_transaction and
\* mine_pending_transactions calls; a submission that would exceed it is rejected.
C1_PendingWithinBalance ==
    \A s \in Names \ {"MINING_REWARD"} :
        SeqSum([i \in 1..Len(pending) |->
                   IF pending[i].sender = s THEN pending[i].amount ELSE 0]) <= Balance(s)

\* addrA holds 50, has 30 pending, and a further submission was rejected for
\* insufficient balance although the amounts submitted (10 or 30) are below 50
C1_Witness ==
    /\ last.op = "add" /\ last.result = "false" /\ last.why = "insufficient"
    /\ Balance("addrA") = 50
    /\ Len(pending) = 1 /\ pending[1].sender = "addrA" /\ pending[1].amount = 30

\* the balance of an address replayed over the stored chain, in block order
RECURSIVE ReplayTxs(_, _)
ReplayTxs(txs, address) ==
    IF txs = <<>> THEN 0
    ELSE LET tx == Head(txs)
         IN  (IF tx.recipient = address THEN tx.amount ELSE 0)
             - (IF tx.sender = address /\ tx.sender \notin {"GENESIS", "MINING_REWARD"}
                THEN tx.amount ELSE 0)
             + ReplayTxs(Tail(txs), address)

RECURSIVE Replay(_, _)
Replay(chain, address) ==
    IF chain = <<>> THEN 0
    ELSE ReplayTxs(Head(chain).transactions_json, address) + Replay(Tail(chain), address)

FirstMineToA ==
    /\ Len(Chain) >= 2
    /\ Len(Chain[2].transactions_json) = 1
    /\ Chain[2].transactions_json[1].recipient = "addrA"

TransferThenMineToA ==
    /\ FirstMineToA
    /\ Len(Chain) = 3
    /\ Len(Chain[3].transactions_json) = 2
    /\ Chain[3].transactions_json[1].sender = "addrA"
    /\ Chain[3].transactions_json[1].recipient = "addrB"
    /\ Chain[3].transactions_json[1].amount = 10
    /\ Chain[3].transactions_json[2].sender = "MINING_REWARD"
    /\ Chain[3].transactions_json[2].recipient = "addrA"

\* C2: the accounts table agrees with the replay of the stored chain for every
\* address; one mine to A gives A 50, and A->B 10 followed by a second mine to A
\* gives A 90 and B 10.
C2_BalanceEqualsReplay ==
    /\ \A a \in Names : Balance(a) = Replay(Chain, a)
    /\ (FirstMineToA /\ Len(Chain) = 2) => Balance("addrA") = 50
    /\ TransferThenMineToA => (Balance("addrA") = 90 /\ Balance("addrB") = 10)

C2_Witness == TransferThenMineToA /\ last.op = "mine" /\ last.result = "block"

\* C3: a step in which add_transaction returns False leaves the pool, the stored
\* chain and every balance as they were.
C3_RejectedAddChangesNothing ==
    [][Did("add", "false") => (pending' = pending /\ db' = db)]_vars

\* a submission was rejected as invalid while a transaction was pending and a
\* block had been mined
C3_Witness ==
    /\ last.op = "add" /\ last.result = "false" /\ last.why = "invalid"
    /\ Len(pending) >= 1
    /\ Len(Chain) >= 2

C5_ChainValid == is_chain_valid(db)

\* three blocks are stored, the last two mined under different difficulties
C5_Witness ==
    /\ Len(Chain) >= 3
    /\ difficulty = 1
    /\ last.op = "mine" /\ last.result = "block"
    /\ LeadingZeros(Chain[2].hash.digits) >= 2

\* C6: right after the nonce, the hash or the previous_hash of a stored block with
\* index >= 1 has been changed out of band, is_chain_valid returns False.
C6_TamperDetected == last.op = "tamper" => ~is_chain_valid(db)

\* C7: a mine whose save_block fails returns no block, leaves the store (tip and
\* balances) as it was and keeps every transaction that was pending, in order.
C7_FailedMineKeepsState ==
    [][(steps' # steps /\ last'.op = "mine" /\ last'.why = "save_failed") =>
            /\ last'.result = "none"
            /\ db' = db
            /\ Len(pending') >= Len(pending)
            /\ SubSeq(pending', 1, Len(pending)) = pending]_vars

\* save_block failed after the block row and balance updates had been executed,
\* with a submitted transaction pending
C7_Witness ==
    /\ last.op = "mine" /\ last.why = "save_failed" /\ last.at > 2
    /\ Len(pending) >= 2
    /\ pending[1].sender = "addrA"

\* the change of an address's balance that a row's transactions make
Delta(row, address) == ReplayTxs(row.transactions_json, address)

\* C8: every step either leaves the committed blocks, transactions and accounts
\* as they were, or adds exactly one block row together with the balance deltas of
\* all of its transactions; a failure or crash inside save_block adds nothing.
C8_BlockAndBalancesAtomic ==
    [][LET added == db'.blocks \ db.blocks
       IN  /\ db.blocks \subseteq db'.blocks
           /\ IF added = {}
              THEN db' = db
              ELSE /\ Cardinality(added) = 1
                   /\ \A row \in added :
                        \A a \in Names \cup DOMAIN db'.accounts
                                 \cup {row.transactions_json[i].recipient :
                                          i \in 1..Len(row.transactions_json)} :
                            get_balance(db', a) = Balance(a) + Delta(row, a)
           /\ (steps' # steps /\ last'.op = "mine" /\ last'.result # "block") => db' = db]_vars

\* the process died inside save_block after the block row had been written
C8_Witness ==
    /\ last.op = "mine" /\ last.result = "crash" /\ last.at = 2
    /\ Len(Chain) >= 2

Recomputed(row) ==
    block_calculate_hash(row.block_index, row.transactions_json, row.previous_hash,
                         row.timestamp, row.nonce)

\* C10: every stored block with index >= 1 stores the hash recomputed from its
\* stored fields, and the block a mine stores starts with as many '0' characters as
\* the difficulty in force at that mine.
C10_ProofOfWork ==
    /\ [](\A r \in db.blocks : r.block_index >= 1 => r.hash = Recomputed(r))
    /\ [][Did("mine", "block") =>
            LeadingZeros(get_last_block(db').hash.digits) >= difficulty]_vars

\* a block mined under difficulty 2 and a later block mined under difficulty 1
\* whose hash has exactly one leading '0'
C10_Witness ==
    /\ Len(Chain) >= 3
    /\ LeadingZeros(Chain[2].hash.digits) = 2
    /\ LeadingZeros(Chain[3].hash.digits) = 1
    /\ Chain[3].nonce > 0

\* C11: in every step the stored chain before the step is a prefix of the stored
\* chain after it; the chain changes only in a successful mine, which adds exactly
\* one block; add_transaction and set-difficulty leave the blocks table as it was.
C11_AppendOnly ==
    [][/\ Len(get_chain(db')) >= Len(Chain)
       /\ SubSeq(get_chain(db'), 1, Len(Chain)) = Chain
       /\ get_chain(db') # Chain => Did("mine", "block")
       /\ Did("mine", "block") => Len(get_chain(db')) = Len(Chain) + 1
       /\ (steps' # steps /\ last'.op \in {"add", "route_difficulty"}) =>
                db'.blocks = db.blocks]_vars

\* a third block of two transactions was appended behind two stored blocks
C11_Witness ==
    /\ last.op = "mine" /\ last.result = "block"
    /\ Len(Chain) = 3
    /\ Len(Chain[3].transactions_json) = 2
    /\ Chain[3].previous_hash = Chain[2].hash

\* the transactions of the stored blocks, in chain order
RECURSIVE StoredTransactions(_)
StoredTransactions(chain) ==
    IF chain = <<>> THEN <<>>
    ELSE Head(chain).transactions_json \o StoredTransactions(Tail(chain))

\* C12: no transaction nonce occurs more than once across the pending pool and all
\* blocks of the chain (a transaction that is already pending or already mined is
\* not admitted again).
C12_NoReplay ==
    LET all == [i \in 1..Len(pending) |-> pending[i].nonce]
                 \o [i \in 1..Len(StoredTransactions(Chain)) |->
                        StoredTransactions(Chain)[i].nonce]
    IN  \A i, j \in 1..Len(all) : all[i] = all[j] => i = j

(***************************************************************************)
(* Transaction objects on their own: a caller builds one, signs it, may    *)
(* assign to its attributes, and asks is_valid. The object under test is   *)
(* held in the one-element pool.                                           *)
(***************************************************************************)
\* the values a caller may give to, or later assign to, the attributes
TxSenders == Addresses \cup {"MINING_REWARD"}
TxPublicKeys == {PublicOf(k) : k \in PrivateKeys} \cup {NoKey, "not a PEM key"}
TxTimes == {1, 2}
TxNonces == {1, 2}
\* no signature, or a string that is not the hex of a signature
TxSignatures == {NoSig, <<"not hex">>}

InitTx ==
    /\ now = 1
    /\ db = BlockchainInit(EmptyDb, 1, 1)
    /\ difficulty = InitDifficulty
    /\ \E s \in TxSenders, r \in Addresses, a \in Amounts, pk \in TxPublicKeys :
            pending = <<Transaction(s, r, a, pk, NoSig, NoTime, NoNonce, 1, 1)>>
    /\ last = [op |-> "init", result |-> "ok", why |-> "none", at |-> 0]
    /\ steps = 0
    /\ threads = NoCalls
    /\ contracts = <<>>
    /\ tours = <<>>
    /\ bookings = <<>>

\* Transaction.sign_transaction(private_key)
SignTransaction ==
    /\ \E k \in PrivateKeys :
            pending' = <<sign_transaction(pending[1], k)>>
    /\ last' = [op |-> "sign", result |-> "ok", why |-> "none", at |-> 0]
    /\ UNCHANGED <<db, difficulty, now, threads>>

\* an assignment to one attribute of the Transaction object
AlterTransaction ==
    /\ \E field \in {"sender", "recipient", "amount", "public_key", "timestamp",
                     "nonce", "signature"} :
        \E v \in CASE field = "sender" -> TxSenders
                   [] field = "recipient" -> Addresses
                   [] field = "amount" -> Amounts
                   [] field = "public_key" -> TxPublicKeys
                   [] field = "timestamp" -> TxTimes
                   [] field = "nonce" -> TxNonces
                   [] field = "signature" -> TxSignatures :
            /\ v # pending[1][field]
            /\ pending' = <<[pending[1] EXCEPT ![field] = v]>>
            /\ last' = [op |-> "alter", result |-> field,
                        why |-> IF pending[1].signature = NoSig THEN "unsigned" ELSE "signed",
                        at |-> 0]
    /\ UNCHANGED <<db, difficulty, now, threads>>

\* Transaction.is_valid()
IsValid ==
    /\ last' = [op |-> "is_valid",
                result |-> IF is_valid(pending[1]) THEN "true" ELSE "false",
                why |-> "none", at |-> 0]
    /\ UNCHANGED <<db, pending, difficulty, now, threads>>

NextTx ==
    /\ steps < MaxSteps
    /\ steps' = steps + 1
    /\ UNCHANGED <<contracts, tours, bookings>>
    /\ \/ SignTransaction
       \/ AlterTransaction
       \/ IsValid

SpecTx == InitTx /\ [][NextTx]_vars

\* what the claim requires of a valid transaction: signature and public key present,
\* the public key's address is the sender, and the signature was made by the private
\* key of that public key over the six fields as they are now
SignedBySender(tx) ==
    /\ tx.signature # NoSig
    /\ tx.public_key # NoKey
    /\ generate_address(tx.public_key) = tx.sender
    /\ \E k \in PrivateKeys :
            /\ PublicOf(k) = tx.public_key
            /\ tx.signature = sign_data(k, transaction_data(tx))

\* C13: for a sender other than MINING_REWARD, is_valid returns True exactly when the
\* transaction is signed by the sender's own key pair over its present fields, and
\* always returns a boolean; a transaction signed with a key pair whose address is
\* not the sender, or with a signed field changed after signing, is invalid.
C13_IsValidIff ==
    /\ [](pending # <<>> /\ pending[1].sender # "MINING_REWARD" =>
            /\ is_valid(pending[1]) \in BOOLEAN
            /\ (\E k \in PrivateKeys :
                    /\ pending[1].signature = sign_data(k, transaction_data(pending[1]))
                    /\ generate_address(PublicOf(k)) # pending[1].sender)
               => ~is_valid(pending[1]))
    /\ [][/\ (steps' # steps /\ last'.op = "is_valid" /\ pending[1].sender # "MINING_REWARD") =>
                /\ last'.result \in {"true", "false"}
                /\ (last'.result = "true") <=> SignedBySender(pending[1])
          /\ (/\ steps' # steps /\ last'.op = "alter" /\ last'.result # "signature"
              /\ is_valid(pending[1])
              /\ pending'[1].sender # "MINING_REWARD" /\ pending[1].sender # "MINING_REWARD") =>
                ~is_valid(pending'[1])]_vars

\* is_valid was asked about a transaction that names addrA as the sender and carries
\* B's public key and B's signature over its present fields; it answered False
C13_Witness ==
    /\ last.op = "is_valid" /\ last.result = "false"
    /\ pending[1].sender = "addrA"
    /\ pending[1].public_key = "pubB"
    /\ pending[1].signature = sign_data("privB", transaction_data(pending[1]))

(***************************************************************************)
(* The ledger with the service layer's set_difficulty exposed as well.     *)
(***************************************************************************)
\* difficulties passed to NodeService.set_difficulty
NodeDifficulties == {0, 1, 11}

\* NodeService.set_difficulty(difficulty)
NodeSetDifficulty ==
    /\ \E d \in NodeDifficulties :
        /\ difficulty' = d
        /\ last' = [op |-> "node_difficulty", result |-> "ok", why |-> "none", at |-> d]
    /\ UNCHANGED <<db, pending, now, threads>>

NextNode ==
    /\ steps < MaxSteps
    /\ steps' = steps + 1
    /\ UNCHANGED <<contracts, tours, bookings>>
    /\ \/ AddTransaction
       \/ MinePendingTransactions
       \/ RouteSetDifficulty
       \/ NodeSetDifficulty

SpecNode == Init /\ [][NextNode]_vars

\* C14: the ledger's difficulty is an integer in 1..10 in every state reached through
\* the set-difficulty operations (the HTTP route and NodeService.set_difficulty).
C14_DifficultyInRange == difficulty \in 1..10

(***************************************************************************)
(* Concurrent request threads (Flask serves each request in its own thread;*)
(* the Blockchain object and its one sqlite connection are shared, and no  *)
(* lock is taken anywhere). A step is one stretch of a handler between two *)
(* points where another thread can run.                                    *)
(***************************************************************************)
\* the store after construction and one block mined to addrA
ConcStore ==
    LET d0 == BlockchainInit(EmptyDb, 1, 1)
        built == BuildBlock(d0, <<>>, InitDifficulty, "addrA", 1, uuid4(d0, <<>>))
    IN  save_block(d0, built.block, [kind |-> "none", at |-> 0]).db

\* the statements of save_block's open transaction are visible through the shared
\* connection before they are committed
View == IF threads.mine.pc \in {"savetx", "commit"} THEN threads.mine.work ELSE db

\* the mine_pending_transactions call is between its first and its last statement
MineInProgress == threads.mine.pc \in {"build", "pow", "save", "savetx", "commit", "clear"}

\* the transactions held by the calls in progress or finished
RECURSIVE ThreadTxs(_)
ThreadTxs(S) ==
    IF S = {} THEN <<>>
    ELSE LET i == CHOOSE j \in S : \A k \in S : j <= k
         IN  threads.add[i].tx \o ThreadTxs(S \ {i})

\* str(uuid.uuid4()) for a transaction created now
FreshNonce == uuid4(db, pending \o ThreadTxs(AddThreads) \o threads.mine.reward)

\* the signed transfers the request threads submit
ConcSubmitted ==
    {sign_transaction(Transaction("addrA", "addrB", a, "pubA", NoSig, NoTime, NoNonce,
                                  now, FreshNonce), "privA") : a \in Amounts}
    \cup {sign_transaction(Transaction("addrB", "addrA", 10, "pubB", NoSig, NoTime, NoNonce,
                                       now, FreshNonce), "privB")}
    \cup {Transaction("addrA", "addrB", 10, "pubA", NoSig, NoTime, NoNonce, now, FreshNonce)}

InitConc ==
    /\ now = 2
    /\ db = ConcStore
    /\ pending = <<>>
    /\ difficulty = InitDifficulty
    /\ last = [op |-> "init", result |-> "ok", why |-> "none", at |-> 0]
    /\ steps = 0
    /\ threads = NoCalls
    /\ contracts = <<>>
    /\ tours = <<>>
    /\ bookings = <<>>

\* add_transaction lines 88-93: is_valid, then the balance read
AddBegin(i) ==
    /\ threads.add[i].pc = "idle"
    /\ \E transaction \in ConcSubmitted :
        IF ~is_valid(transaction)
        THEN /\ threads' = [threads EXCEPT !.add[i].pc = "done", !.add[i].tx = <<transaction>>]
             /\ last' = [op |-> "add", result |-> "false", why |-> "invalid", at |-> i]
        ELSE /\ threads' = [threads EXCEPT
                               !.add[i].pc = "scan",
                               !.add[i].tx = <<transaction>>,
                               !.add[i].balance = get_balance(View, transaction.sender)]
             /\ last' = [op |-> "add_read", result |-> "ok", why |-> "none", at |-> i]
    /\ UNCHANGED <<db, pending, difficulty, now>>

\* add_transaction lines 95-98: the pending_spend loop
AddScan(i) ==
    /\ threads.add[i].pc = "scan"
    /\ threads' = [threads EXCEPT
                      !.add[i].pc = "check",
                      !.add[i].spend = pending_spend(pending, threads.add[i].tx[1].sender)]
    /\ last' = [op |-> "add_scan", result |-> "ok", why |-> "none", at |-> i]
    /\ UNCHANGED <<db, pending, difficulty, now>>

\* add_transaction lines 100-105: the comparison, then the append
AddFinish(i) ==
    /\ threads.add[i].pc = "check"
    /\ LET me == threads.add[i]
           transaction == me.tx[1]
       IN  IF transaction.sender # "MINING_REWARD" /\ (me.balance - me.spend) < transaction.amount
           THEN /\ threads' = [threads EXCEPT !.add[i].pc = "done"]
                /\ last' = [op |-> "add", result |-> "false", why |-> "insufficient", at |-> i]
                /\ UNCHANGED pending
           ELSE /\ pending' = Append(pending, transaction)
                /\ threads' = [threads EXCEPT !.add[i].pc = "done", !.add[i].ok = TRUE,
                                              !.add[i].during = MineInProgress]
                /\ last' = [op |-> "add", result |-> "true", why |-> "none", at |-> i]
    /\ UNCHANGED <<db, difficulty, now>>

\* the Block object of the mine in progress: its transactions attribute is the pool
\* list itself (Block.__init__ keeps the reference), so it shows the pool's content
MineBlock == [threads.mine.block[1] EXCEPT !.transactions = pending]

\* mine_pending_transactions lines 113-118: the reward transaction is appended
MineBegin ==
    /\ threads.mine.pc = "idle"
    /\ \E mining_reward_address \in Miners :
        LET reward_transaction ==
                Transaction("MINING_REWARD", mining_reward_address, mining_reward,
                            NoKey, NoSig, NoTime, NoNonce, now, FreshNonce)
        IN  /\ pending' = Append(pending, reward_transaction)
            /\ threads' = [threads EXCEPT !.mine.pc = "build",
                                          !.mine.reward = <<reward_transaction>>]
    /\ last' = [op |-> "mine_reward", result |-> "ok", why |-> "none", at |-> 0]
    /\ UNCHANGED <<db, difficulty, now>>

\* lines 120-126: the tip is loaded and the Block is constructed over the pool list
MineBuild ==
    /\ threads.mine.pc = "build"
    /\ LET latest_block == get_latest_block(db, now, FreshNonce)
           new_block == Block(latest_block.index + 1, pending, latest_block.hash, NoTime, 0, now)
       IN  threads' = [threads EXCEPT !.mine.pc = "pow", !.mine.block = <<new_block>>]
    /\ last' = [op |-> "mine_build", result |-> "ok", why |-> "none", at |-> 0]
    /\ UNCHANGED <<db, pending, difficulty, now>>

\* line 128: the proof-of-work loop
MinePow ==
    /\ threads.mine.pc = "pow"
    /\ difficulty \in 0..HashDigits
    /\ threads' = [threads EXCEPT !.mine.pc = "save",
                                  !.mine.block = <<mine_block(MineBlock, difficulty)>>]
    /\ last' = [op |-> "mine_pow", result |-> "ok", why |-> "none", at |-> 0]
    /\ UNCHANGED <<db, pending, difficulty, now>>

\* save_block lines 71-82: the block row, with the JSON of the list as it is now
MineSaveBlock ==
    /\ threads.mine.pc = "save"
    /\ threads' = [threads EXCEPT !.mine.pc = "savetx",
                                  !.mine.work = Exec(db, Statements(MineBlock)[1])]
    /\ last' = [op |-> "mine_save_block", result |-> "ok", why |-> "none", at |-> 0]
    /\ UNCHANGED <<db, pending, difficulty, now>>

\* save_block lines 85-112: the transaction rows and balance updates of the list
MineSaveTransactions ==
    /\ threads.mine.pc = "savetx"
    /\ LET stmts == AllTxStatements(pending, MineBlock.index)
       IN  threads' = [threads EXCEPT !.mine.pc = "commit",
                                      !.mine.work = Run(threads.mine.work, stmts, Len(stmts))]
    /\ last' = [op |-> "mine_save_txs", result |-> "ok", why |-> "none", at |-> 0]
    /\ UNCHANGED <<db, pending, difficulty, now>>

\* save_block lines 114-115: conn.commit()
MineCommit ==
    /\ threads.mine.pc = "commit"
    /\ db' = Commit(db, threads.mine.work)
    /\ threads' = [threads EXCEPT !.mine.pc = "clear"]
    /\ last' = [op |-> "mine_commit", result |-> "ok", why |-> "none", at |-> 0]
    /\ now' = now + 1
    /\ UNCHANGED <<pending, difficulty>>

\* lines 133-135: the pool attribute is bound to a new empty list
MineFinish ==
    /\ threads.mine.pc = "clear"
    /\ pending' = PoolAfterMine(pending, TRUE)
    /\ threads' = [threads EXCEPT !.mine.pc = "done"]
    /\ last' = [op |-> "mine", result |-> MineReturn(TRUE), why |-> "saved", at |-> 0]
    /\ UNCHANGED <<db, difficulty, now>>

\* a balance, chain and pending-pool query (GET routes): what it is answered
Query ==
    /\ threads.seen = <<>>
    /\ threads' = [threads EXCEPT !.seen =
                      <<[pool      |-> pending,
                         chain     |-> get_chain(View),
                         accounts  |-> View.accounts,
                         committed |-> db,
                         reward    |-> IF MineInProgress THEN threads.mine.reward ELSE <<>>]>>]
    /\ last' = [op |-> "query", result |-> "ok", why |-> "none", at |-> 0]
    /\ UNCHANGED <<db, pending, difficulty, now>>

NextConc ==
    /\ steps' = steps + 1
    /\ UNCHANGED <<contracts, tours, bookings>>
    /\ \/ \E i \in AddThreads : AddBegin(i)
       \/ \E i \in AddThreads : AddScan(i)
       \/ \E i \in AddThreads : AddFinish(i)
       \/ MineBegin
       \/ MineBuild
       \/ MinePow
       \/ MineSaveBlock
       \/ MineSaveTransactions
       \/ MineCommit
       \/ MineFinish
       \/ Query

SpecConc == InitConc /\ [][NextConc]_vars

\* the number of positions of a sequence that hold x
Occurrences(seq, x) == Cardinality({i \in 1..Len(seq) : seq[i] = x})

\* C15: two add_transaction calls of one sender that run concurrently are never both
\* admitted beyond the sender's confirmed balance: with no mine running, the amounts a
\* sender has pending sum to at most its confirmed balance.
C15_NoDoubleCountedSpend ==
    threads.mine.pc = "idle" =>
        \A s \in Addresses :
            SeqSum([i \in 1..Len(pending) |->
                       IF pending[i].sender = s THEN pending[i].amount ELSE 0])
                <= get_balance(db, s)

\* C16: once the mine has completed, a transaction that add_transaction accepted while
\* the mine was in progress is in exactly one of the mined block and the pending pool.
C16_NoLostTransaction ==
    threads.mine.pc = "done" =>
        \A i \in AddThreads :
            (threads.add[i].pc = "done" /\ threads.add[i].ok /\ threads.add[i].during) =>
                Occurrences(get_last_block(db).transactions_json, to_dict(threads.add[i].tx[1]))
                    + Occurrences(pending, threads.add[i].tx[1]) = 1

\* C17: a query that runs while a mine is in progress is answered with committed
\* content only, with balances that agree with the blocks it is shown, and with a
\* pool that does not hold the reward transaction of the mine in progress.
C17_NoTornRead ==
    threads.seen # <<>> =>
        LET o == threads.seen[1]
        IN  /\ o.chain = get_chain(o.committed)
            /\ o.accounts = o.committed.accounts
            /\ \A a \in Addresses :
                    (IF a \in DOMAIN o.accounts THEN o.accounts[a] ELSE 0) = Replay(o.chain, a)
            /\ o.reward # <<>> => Occurrences(o.pool, o.reward[1]) = 0

Get(conditions, key, default) ==
    IF key \in DOMAIN conditions THEN conditions[key] ELSE default

\* float('inf') as the default of max_payments: no count reaches it
Infinity == 1000000

\* SmartContract.__init__ followed by the status set by create_contract; t is time.time()
SmartContract(contract_id, contract_type, participants, amount, conditions, status, t) ==
    [contract_id      |-> contract_id,
     contract_type    |-> contract_type,
     participants     |-> participants,
     amount           |-> amount,
     conditions       |-> conditions,
     status           |-> status,
     created_at       |-> t,
     executed_at      |-> NoTime,
     execution_result |-> "None"]

\* check_conditions releasing an ESCROW contract on the first approval of a listed approver
check_conditions_AnyApproval(c, d, t) ==
    IF c.status = "executed" THEN FALSE
    ELSE CASE c.contract_type = "TIME_LOCK" ->
                t >= Get(c.conditions, "release_time", 0)
           [] c.contract_type = "ESCROW" ->
                LET required_approvals == Get(c.conditions, "required_approvals", [addrs |-> <<>>])
                    received_approvals == Get(c.conditions, "received_approvals", <<>>)
                IN  IF "count" \in DOMAIN required_approvals
                    THEN Len(received_approvals) >= required_approvals.count
                    ELSE \E i \in 1..Len(required_approvals.addrs) :
                            \E j \in 1..Len(received_approvals) :
                                received_approvals[j] = required_approvals.addrs[i]
           [] c.contract_type = "CONDITIONAL" ->
                LET condition_type == Get(c.conditions, "condition_type", "None")
                IN  IF condition_type = "balance_threshold"
                    THEN get_balance(d, Get(c.conditions, "target_address", "None"))
                            >= Get(c.conditions, "threshold", 0)
                    ELSE IF condition_type = "block_height"
                    THEN Len(get_chain(d)) >= Get(c.conditions, "target_height", 0)
                    ELSE FALSE
           [] c.contract_type = "RECURRING" ->
                LET last_payment == Get(c.conditions, "last_payment_time", c.created_at)
                    interval == Get(c.conditions, "interval", 0)
                    payments_made == Get(c.conditions, "payments_made", 0)
                    max_payments == Get(c.conditions, "max_payments", Infinity)
                IN  (t - last_payment) >= interval /\ payments_made < max_payments
           [] OTHER -> FALSE

\* check_conditions without the test of the executed status
check_conditions_NoStatusCheck(c, d, t) ==
    IF FALSE THEN FALSE
    ELSE CASE c.contract_type = "TIME_LOCK" ->
                t >= Get(c.conditions, "release_time", 0)
           [] c.contract_type = "ESCROW" ->
                LET required_approvals == Get(c.conditions, "required_approvals", [addrs |-> <<>>])
                    received_approvals == Get(c.conditions, "received_approvals", <<>>)
                IN  IF "count" \in DOMAIN required_approvals
                    THEN Len(received_approvals) >= required_approvals.count
                    ELSE \A i \in 1..Len(required_approvals.addrs) :
                            \E j \in 1..Len(received_approvals) :
                                received_approvals[j] = required_approvals.addrs[i]
           [] c.contract_type = "CONDITIONAL" ->
                LET condition_type == Get(c.conditions, "condition_type", "None")
                IN  IF condition_type = "balance_threshold"
                    THEN get_balance(d, Get(c.conditions, "target_address", "None"))
                            >= Get(c.conditions, "threshold", 0)
                    ELSE IF condition_type = "block_height"
                    THEN Len(get_chain(d)) >= Get(c.conditions, "target_height", 0)
                    ELSE FALSE
           [] c.contract_type = "RECURRING" ->
                LET last_payment == Get(c.conditions, "last_payment_time", c.created_at)
                    interval == Get(c.conditions, "interval", 0)
                    payments_made == Get(c.conditions, "payments_made", 0)
                    max_payments == Get(c.conditions, "max_payments", Infinity)
                IN  (t - last_payment) >= interval /\ payments_made < max_payments
           [] OTHER -> FALSE

\* SmartContract.check_conditions(blockchain) at time t on the store d
check_conditions(c, d, t) ==
    IF c.status = "executed" THEN FALSE
    ELSE CASE c.contract_type = "TIME_LOCK" ->
                t >= Get(c.conditions, "release_time", 0)
           [] c.contract_type = "ESCROW" ->
                LET required_approvals == Get(c.conditions, "required_approvals", [addrs |-> <<>>])
                    received_approvals == Get(c.conditions, "received_approvals", <<>>)
                IN  IF "count" \in DOMAIN required_approvals
                    THEN Len(received_approvals) >= required_approvals.count
                    ELSE \A i \in 1..Len(required_approvals.addrs) :
                            \E j \in 1..Len(received_approvals) :
                                received_approvals[j] = required_approvals.addrs[i]
           [] c.contract_type = "CONDITIONAL" ->
                LET condition_type == Get(c.conditions, "condition_type", "None")
                IN  IF condition_type = "balance_threshold"
                    THEN get_balance(d, Get(c.conditions, "target_address", "None"))
                            >= Get(c.conditions, "threshold", 0)
                    ELSE IF condition_type = "block_height"
                    THEN Len(get_chain(d)) >= Get(c.conditions, "target_height", 0)
                    ELSE FALSE
           [] c.contract_type = "RECURRING" ->
                LET last_payment == Get(c.conditions, "last_payment_time", c.created_at)
                    interval == Get(c.conditions, "interval", 0)
                    payments_made == Get(c.conditions, "payments_made", 0)
                    max_payments == Get(c.conditions, "max_payments", Infinity)
                IN  (t - last_payment) >= interval /\ payments_made < max_payments
           [] OTHER -> FALSE

\* assignment conditions[key] = value
Put(conditions, key, value) ==
    [k \in DOMAIN conditions \cup {key} |-> IF k = key THEN value ELSE conditions[k]]

\* the transaction a contract execution creates
ContractTransaction(c, recipient, t, u) ==
    Transaction("CONTRACT:" \o c.contract_id, recipient, c.amount, NoKey,
                <<"SMART_CONTRACT_EXECUTION">>, NoTime, NoNonce, t, u)

\* SmartContract.execute(blockchain): the contract afterwards, the dictionary returned
\* (its success entry and which of the three returns it was) and the pool afterwards
execute(c, d, pool, t, u) ==
    IF ~check_conditions(c, d, t)
    THEN [contract |-> c, success |-> FALSE, why |-> "not_met", pool |-> pool]
    ELSE IF c.contract_type = "RECURRING"
    THEN LET tx == ContractTransaction(c, Get(c.conditions, "recipient", "None"), t, u)
             paid == Put(Put(c.conditions, "payments_made",
                             Get(c.conditions, "payments_made", 0) + 1),
                         "last_payment_time", t)
             done == paid["payments_made"] >= Get(paid, "max_payments", 1)
         IN  [contract |-> [c EXCEPT !.conditions = paid,
                                     !.status = IF done THEN "executed" ELSE @,
                                     !.executed_at = IF done THEN t ELSE @,
                                     !.execution_result = "success"],
              success |-> TRUE, why |-> "none",
              pool |-> add_transaction(d, pool, tx)]
    ELSE IF Get(c.conditions, "recipient", "None") = "None" /\ c.participants = <<>>
    THEN \* participants[-1] raises IndexError, caught by the except clause
         [contract |-> [c EXCEPT !.status = "failed", !.execution_result = "error"],
          success |-> FALSE, why |-> "error", pool |-> pool]
    ELSE LET recipient == IF Get(c.conditions, "recipient", "None") # "None"
                          THEN c.conditions["recipient"]
                          ELSE c.participants[Len(c.participants)]
             tx == ContractTransaction(c, recipient, t, u)
         IN  [contract |-> [c EXCEPT !.status = "executed", !.executed_at = t,
                                     !.execution_result = "success"],
              success |-> TRUE, why |-> "none",
              pool |-> add_transaction(d, pool, tx)]

\* add_approval without the test for an earlier approval of the same approver
add_approval_NoDuplicateCheck(c, approver_address) ==
    LET received_approvals == Get(c.conditions, "received_approvals", <<>>)
    IN  IF c.contract_type # "ESCROW" THEN [contract |-> c, ok |-> FALSE]
        ELSE IF \A i \in 1..Len(c.participants) : c.participants[i] # approver_address
        THEN [contract |-> c, ok |-> FALSE]
        ELSE [contract |-> [c EXCEPT !.conditions =
                                Put(@, "received_approvals",
                                    Append(received_approvals, approver_address))],
              ok |-> TRUE]

\* SmartContract.add_approval(approver_address): the contract afterwards and the
\* value returned
add_approval(c, approver_address) ==
    LET received_approvals == Get(c.conditions, "received_approvals", <<>>)
    IN  IF c.contract_type # "ESCROW" THEN [contract |-> c, ok |-> FALSE]
        ELSE IF \A i \in 1..Len(c.participants) : c.participants[i] # approver_address
        THEN [contract |-> c, ok |-> FALSE]
        ELSE IF \A j \in 1..Len(received_approvals) : received_approvals[j] # approver_address
        THEN [contract |-> [c EXCEPT !.conditions =
                                Put(@, "received_approvals",
                                    Append(received_approvals, approver_address))],
              ok |-> TRUE]
        ELSE [contract |-> c, ok |-> FALSE]

\* the contracts that callers create: contract type, participants and conditions
ContractIds == {"c1", "c2"}
ContractAmount == 10
ContractTemplates ==
    {[contract_type |-> "ESCROW", participants |-> p,
      conditions |-> [required_approvals |-> r, received_approvals |-> <<>>]] :
        p \in {<<"addrA">>, <<"addrA", "addrB">>},
        r \in {[addrs |-> <<"addrA">>], [addrs |-> <<"addrA", "addrB">>], [count |-> 1]}}
    \cup {[contract_type |-> "TIME_LOCK", participants |-> p,
           conditions |-> [release_time |-> rt]] :
        p \in {<<>>, <<"addrA">>}, rt \in {1, 4}}
    \cup {[contract_type |-> "CONDITIONAL", participants |-> <<"addrA">>,
           conditions |-> [condition_type |-> "balance_threshold", target_address |-> a,
                           threshold |-> 30, recipient |-> "addrB"]] :
        a \in Addresses}
    \cup {[contract_type |-> "CONDITIONAL", participants |-> <<"addrA">>,
           conditions |-> [condition_type |-> "block_height", target_height |-> h]] :
        h \in {2, 3}}
    \cup {[contract_type |-> "RECURRING", participants |-> <<"addrA">>,
           conditions |-> [interval |-> 1, recipient |-> "addrB"]],
          [contract_type |-> "RECURRING", participants |-> <<"addrA">>,
           conditions |-> [interval |-> 1, max_payments |-> 2, recipient |-> "addrB"]]}

\* the position of a contract id in the manager's dictionary, 0 when it is absent
IndexOf(cs, contract_id) ==
    IF \E i \in 1..Len(cs) : cs[i].contract_id = contract_id
    THEN CHOOSE i \in 1..Len(cs) : cs[i].contract_id = contract_id
    ELSE 0

\* uuid4 for a transaction created by a contract execution
ContractNonce(pool) == uuid4(db, pool)

\* the loop of check_and_execute_contracts from position i on: the contracts and the
\* pool afterwards and the number of results
RECURSIVE ExecuteAll(_, _, _, _, _)
ExecuteAll(cs, i, d, pool, t) ==
    IF i > Len(cs) THEN [contracts |-> cs, pool |-> pool, results |-> 0]
    ELSE IF cs[i].status \in {"active", "pending"} /\ check_conditions(cs[i], d, t)
    THEN LET r == execute(cs[i], d, pool, t, ContractNonce(pool))
             rest == ExecuteAll([cs EXCEPT ![i] = r.contract], i + 1, d, r.pool, t)
         IN  [rest EXCEPT !.results = @ + 1]
    ELSE ExecuteAll(cs, i + 1, d, pool, t)

InitContract ==
    /\ now = 2
    /\ db = ConcStore
    /\ pending = <<>>
    /\ difficulty = InitDifficulty
    /\ last = [op |-> "init", result |-> "ok", why |-> "none", at |-> 0]
    /\ steps = 0
    /\ threads = NoCalls
    /\ contracts = <<>>
    /\ tours = <<>>
    /\ bookings = <<>>

\* SmartContractManager.create_contract
CreateContract ==
    /\ \E contract_id \in ContractIds, c \in ContractTemplates :
        IF IndexOf(contracts, contract_id) # 0
        THEN /\ last' = [op |-> "create", result |-> "ValueError", why |-> "exists", at |-> 0]
             /\ UNCHANGED contracts
        ELSE /\ contracts' = Append(contracts,
                                SmartContract(contract_id, c.contract_type, c.participants,
                                              ContractAmount, c.conditions, "active", now))
             /\ last' = [op |-> "create", result |-> "ok", why |-> "none",
                         at |-> Len(contracts) + 1]
    /\ UNCHANGED <<db, pending, difficulty, now, threads>>

\* SmartContractManager.add_approval(contract_id, approver_address)
AddApproval ==
    /\ \E contract_id \in ContractIds, approver_address \in Addresses :
        LET i == IndexOf(contracts, contract_id)
        IN  IF i = 0
            THEN /\ last' = [op |-> "approve", result |-> "false", why |-> "unknown", at |-> 0]
                 /\ UNCHANGED contracts
            ELSE LET r == add_approval(contracts[i], approver_address)
                 IN  /\ contracts' = [contracts EXCEPT ![i] = r.contract]
                     /\ last' = [op |-> "approve",
                                 result |-> IF r.ok THEN "true" ELSE "false",
                                 why |-> approver_address, at |-> i]
    /\ UNCHANGED <<db, pending, difficulty, now, threads>>

\* SmartContract.execute(blockchain) on a contract of the manager
Execute ==
    /\ \E i \in 1..Len(contracts) :
        LET r == execute(contracts[i], db, pending, now, ContractNonce(pending))
        IN  /\ contracts' = [contracts EXCEPT ![i] = r.contract]
            /\ pending' = r.pool
            /\ last' = [op |-> "execute", result |-> IF r.success THEN "true" ELSE "false",
                        why |-> r.why, at |-> i]
    /\ UNCHANGED <<db, difficulty, now, threads>>

\* SmartContractManager.check_and_execute_contracts(blockchain)
CheckAndExecute ==
    /\ LET r == ExecuteAll(contracts, 1, db, pending, now)
       IN  /\ contracts' = r.contracts
           /\ pending' = r.pool
           /\ last' = [op |-> "check_and_execute", result |-> "ok", why |-> "none",
                       at |-> r.results]
    /\ UNCHANGED <<db, difficulty, now, threads>>

\* time passes
Tick ==
    /\ now' = now + 1
    /\ last' = [op |-> "tick", result |-> "ok", why |-> "none", at |-> 0]
    /\ UNCHANGED <<db, pending, difficulty, threads, contracts>>

NextContract ==
    /\ steps < MaxSteps
    /\ steps' = steps + 1
    /\ \/ CreateContract
       \/ AddApproval
       \/ Execute
       \/ CheckAndExecute
       \/ Tick
    /\ UNCHANGED <<tours, bookings>>

SpecContract == InitContract /\ [][NextContract]_vars

\* the cases of unmet conditions: an ESCROW contract with a required approver who has
\* not approved, a TIME_LOCK contract before its release time, a CONDITIONAL
\* balance_threshold contract whose target holds less than the threshold
ConditionsNotMet(c) ==
    \/ /\ c.contract_type = "ESCROW"
       /\ "addrs" \in DOMAIN c.conditions["required_approvals"]
       /\ \E i \in 1..Len(c.conditions["required_approvals"].addrs) :
            \A j \in 1..Len(c.conditions["received_approvals"]) :
                c.conditions["received_approvals"][j] # c.conditions["required_approvals"].addrs[i]
    \/ /\ c.contract_type = "TIME_LOCK"
       /\ now < c.conditions["release_time"]
    \/ /\ c.contract_type = "CONDITIONAL"
       /\ c.conditions["condition_type"] = "balance_threshold"
       /\ Balance(c.conditions["target_address"]) < c.conditions["threshold"]

\* C19: execute on a contract whose conditions are not met returns success = False,
\* leaves the contract's status and conditions as they were and adds nothing to the
\* pending pool.
C19_UnmetContractDoesNotExecute ==
    [][\A i \in 1..Len(contracts) :
          (/\ steps' # steps /\ last'.op = "execute" /\ last'.at = i
           /\ ConditionsNotMet(contracts[i])) =>
                /\ last'.result = "false"
                /\ contracts'[i].status = contracts[i].status
                /\ contracts'[i].conditions = contracts[i].conditions
                /\ pending' = pending]_vars

\* execute was refused on an active ESCROW contract that has one of its two required
\* approvals
C19_Witness ==
    /\ last.op = "execute" /\ last.result = "false" /\ last.why = "not_met"
    /\ last.at \in 1..Len(contracts)
    /\ LET c == contracts[last.at]
       IN  /\ c.contract_type = "ESCROW"
           /\ c.status = "active"
           /\ c.conditions["required_approvals"] = [addrs |-> <<"addrA", "addrB">>]
           /\ Len(c.conditions["received_approvals"]) = 1

\* the cases of met conditions: an active ESCROW contract with every required approver
\* among the received approvals, an active TIME_LOCK contract at or after its release
\* time, an active RECURRING contract whose interval has elapsed with payments left
ConditionsMet(c) ==
    /\ c.status = "active"
    /\ \/ /\ c.contract_type = "ESCROW"
          /\ "addrs" \in DOMAIN c.conditions["required_approvals"]
          /\ \A i \in 1..Len(c.conditions["required_approvals"].addrs) :
                \E j \in 1..Len(c.conditions["received_approvals"]) :
                    c.conditions["received_approvals"][j]
                        = c.conditions["required_approvals"].addrs[i]
       \/ /\ c.contract_type = "TIME_LOCK"
          /\ now >= c.conditions["release_time"]
       \/ /\ c.contract_type = "RECURRING"
          /\ now - Get(c.conditions, "last_payment_time", c.created_at) >= c.conditions["interval"]
          /\ ("max_payments" \in DOMAIN c.conditions =>
                Get(c.conditions, "payments_made", 0) < c.conditions["max_payments"])

\* C20: execute on a contract whose conditions are met returns success = True, and
\* the status of a non-recurring contract becomes executed.
C20_MetContractExecutes ==
    [][\A i \in 1..Len(contracts) :
          (/\ steps' # steps /\ last'.op = "execute" /\ last'.at = i
           /\ ConditionsMet(contracts[i])) =>
                /\ last'.result = "true"
                /\ contracts[i].contract_type # "RECURRING" =>
                        contracts'[i].status = "executed"]_vars


(***************************************************************************)
(* Construction of the ledger when the store can fail: create_genesis_block*)
(* ignores what save_block returns, so a failed save leaves the blocks     *)
(* table empty behind a constructed Blockchain object.                     *)
(***************************************************************************)
\* largest number of operations after a construction on a failing store
BootSteps == 4

\* the genesis Block object of create_genesis_block
GenesisBlock(t, u) ==
    Block(0, <<Transaction("GENESIS", "GENESIS", 0, "GENESIS_KEY", NoSig, NoTime, NoNonce, t, u)>>,
          ZeroHash, NoTime, 0, t)

\* Blockchain.__init__ on the store d when the save of the genesis block meets `fault`
Construct(d, t, u, fault) ==
    IF ~HasBlocks(d) THEN save_block(d, GenesisBlock(t, u), fault).db ELSE d

\* the faults a construction returns from (a crash ends the process instead)
ConstructFaults(t, u) == {f \in Faults(GenesisBlock(t, u)) : f.kind # "crash"}

InitBoot ==
    /\ now = 1
    /\ \E fault \in ConstructFaults(1, 1) : db = Construct(EmptyDb, 1, 1, fault)
    /\ pending = <<>>
    /\ difficulty = InitDifficulty
    /\ last = [op |-> "init", result |-> "ok", why |-> "none", at |-> 0]
    /\ steps = 0
    /\ threads = NoCalls
    /\ contracts = <<>>
    /\ tours = <<>>
    /\ bookings = <<>>

\* mine_pending_transactions when get_latest_block returns None: the reward has been
\* appended and latest_block.index raises AttributeError
MineWithoutTip ==
    /\ ~HasBlocks(db)
    /\ \E mining_reward_address \in Miners :
        pending' = Append(pending,
                          Transaction("MINING_REWARD", mining_reward_address, mining_reward,
                                      NoKey, NoSig, NoTime, NoNonce, now, uuid4(db, pending)))
    /\ last' = [op |-> "mine", result |-> "AttributeError", why |-> "no_tip", at |-> 0]
    /\ UNCHANGED <<db, difficulty, now, threads>>

\* mine_pending_transactions on a store that has a tip
MineWithTip == HasBlocks(db) /\ MinePendingTransactions

\* the process is started again (create_app) on the store as it is
Restart ==
    /\ \E fault \in ConstructFaults(now, uuid4(db, <<>>)) :
        db' = Construct(db, now, uuid4(db, <<>>), fault)
    /\ pending' = <<>>
    /\ difficulty' = InitDifficulty
    /\ last' = [op |-> "restart", result |-> "ok", why |-> "none", at |-> 0]
    /\ UNCHANGED <<now, threads>>

NextBoot ==
    /\ steps < BootSteps
    /\ steps' = steps + 1
    /\ UNCHANGED <<contracts, tours, bookings>>
    /\ \/ AddTransaction
       \/ MineWithTip
       \/ MineWithoutTip
       \/ Restart

SpecBoot == InitBoot /\ [][NextBoot]_vars

\* C21: once the ledger has been constructed, get_latest_block returns a block in
\* every reachable state, failed persistence operations included, and no mine fails
\* for want of a tip.
C21_LatestBlockExists == HasBlocks(db) /\ last.result # "AttributeError"


(***************************************************************************)
(* Block objects on their own: a caller constructs a Block and calls       *)
(* mine_block on it, any number of times. The object is threads.mine.block *)
(* [1]; [2] is the object as it was when the call in progress began. A     *)
(* step inside a call is one evaluation of the loop condition.             *)
(***************************************************************************)
\* the arguments of Block.__init__
BlockIndexes == {1, 2}
BlockTransactions ==
    LET reward == Transaction("MINING_REWARD", "addrA", mining_reward, NoKey, NoSig,
                              NoTime, NoNonce, 1, 1)
        transfer == sign_transaction(Transaction("addrA", "addrB", 10, "pubA", NoSig,
                                                 NoTime, NoNonce, 1, 2), "privA")
    IN  {<<>>, <<reward>>, <<transfer, reward>>}
BlockPreviousHashes == {ZeroHash, GenesisBlock(1, 1).hash}
BlockTimes == {NoTime, 2}
BlockNonces == {0, 1, 7}

InitBlock ==
    /\ now = 1
    /\ db = BlockchainInit(EmptyDb, 1, 1)
    /\ pending = <<>>
    /\ difficulty = InitDifficulty
    /\ last = [op |-> "init", result |-> "ok", why |-> "none", at |-> 0]
    /\ steps = 0
    /\ \E index \in BlockIndexes, transactions \in BlockTransactions,
          previous_hash \in BlockPreviousHashes, timestamp \in BlockTimes,
          nonce \in BlockNonces :
            LET block == Block(index, transactions, previous_hash, timestamp, nonce, 1)
            IN  threads = [NoCalls EXCEPT !.mine.block = <<block, block>>]
    /\ contracts = <<>>
    /\ tours = <<>>
    /\ bookings = <<>>

\* mine_block(d) is called: line 51
MineBlockCall ==
    /\ threads.mine.pc = "idle"
    /\ steps < MaxSteps
    /\ \E d \in 0..HashDigits :
        /\ difficulty' = d
        /\ last' = [op |-> "mine_block", result |-> "running",
                    why |-> IF last.op = "mine_block" /\ difficulty = d THEN "again" ELSE "first",
                    at |-> 0]
    /\ threads' = [threads EXCEPT !.mine.pc = "pow",
                                  !.mine.block = <<threads.mine.block[1], threads.mine.block[1]>>]
    /\ steps' = steps + 1
    /\ UNCHANGED <<db, pending, now, contracts, tours, bookings>>

\* lines 53-55: the condition holds and the body runs
MineBlockIterate ==
    /\ threads.mine.pc = "pow"
    /\ ~MeetsTarget(threads.mine.block[1].hash, difficulty)
    /\ threads' = [threads EXCEPT !.mine.block[1] = mine_block_step(@)]
    /\ last' = [last EXCEPT !.at = @ + 1]
    /\ UNCHANGED <<db, pending, difficulty, now, steps, contracts, tours, bookings>>

\* lines 53, 57: the condition fails and mine_block returns
MineBlockReturn ==
    /\ threads.mine.pc = "pow"
    /\ MeetsTarget(threads.mine.block[1].hash, difficulty)
    /\ threads' = [threads EXCEPT !.mine.pc = "idle"]
    /\ last' = [last EXCEPT !.result = "returned"]
    /\ UNCHANGED <<db, pending, difficulty, now, steps, contracts, tours, bookings>>

NextBlock ==
    \/ MineBlockCall
    \/ MineBlockIterate
    \/ MineBlockReturn

SpecBlock == InitBlock /\ [][NextBlock]_vars

\* the loop of a call runs on as long as it can
SpecBlockFair ==
    SpecBlock /\ WF_vars(MineBlockIterate) /\ WF_vars(MineBlockReturn)

\* this step is the return of a mine_block call
Returned == last.result = "running" /\ last'.result = "returned"

\* C22: a mine_block call on a block whose hash already starts with `difficulty` '0'
\* characters returns after zero iterations with nonce and hash as they were, and
\* mining the block a call returns once more with the same difficulty gives that block.
C22_MineBlockIdempotent ==
    [][Returned =>
          LET block == threads'.mine.block[1]
              before == threads'.mine.block[2]
          IN  /\ LeadingZeros(before.hash.digits) >= difficulty =>
                    (last'.at = 0 /\ block = before)
              /\ mine_block(block, difficulty) = block
              /\ mine_block(mine_block(before, difficulty), difficulty)
                    = mine_block(before, difficulty)
              /\ last'.why = "again" => (last'.at = 0 /\ block = before)]_vars

\* a second call with difficulty 2 returned a block that the first call had mined
\* over more than one iteration
C22_Witness ==
    /\ last.op = "mine_block" /\ last.result = "returned" /\ last.why = "again"
    /\ difficulty = 2
    /\ last.at = 0
    /\ threads.mine.block[1].nonce > 8


(***************************************************************************)
(* Out-of-band mutation of a stored transaction (somebody edits the        *)
(* transactions_json column of a block in blockchain.db).                  *)
(***************************************************************************)
\* the stored transaction with its amount changed or its signature removed
TamperedTransaction(tx_data, field) ==
    CASE field = "amount" -> [tx_data EXCEPT !.amount = @ + 1]
      [] field = "signature" -> [tx_data EXCEPT !.signature = NoSig]

TamperTransaction ==
    /\ \E row \in {r \in db.blocks : r.block_index >= 1} :
        \E i \in 1..Len(row.transactions_json), field \in {"amount", "signature"} :
            /\ db' = [db EXCEPT !.blocks =
                        (@ \ {row}) \cup {[row EXCEPT !.transactions_json[i] =
                                              TamperedTransaction(@, field)]}]
            /\ last' = [op |-> "tamper_tx", result |-> field, why |-> "none",
                        at |-> row.block_index]
    /\ UNCHANGED <<pending, difficulty, now, threads>>

NextTamperTx ==
    /\ steps < MaxSteps
    /\ steps' = steps + 1
    /\ UNCHANGED <<contracts, tours, bookings>>
    /\ \/ AddTransaction
       \/ MinePendingTransactions
       \/ TamperTransaction

SpecTamperTx == Init /\ [][NextTamperTx]_vars

\* a block with index >= 1 holds a transaction for which is_valid is False
HoldsInvalidTransaction(d) ==
    \E r \in d.blocks :
        /\ r.block_index >= 1
        /\ \E i \in 1..Len(r.transactions_json) :
                ~is_valid(LoadTransactions(r, now, uuid4(d, pending))[i])

\* C23: when a stored block with index >= 1 holds a transaction for which is_valid
\* is False, is_chain_valid returns False, intact previous-hash links notwithstanding.
C23_InvalidTransactionDetected == HoldsInvalidTransaction(db) => ~is_chain_valid(db)


\* transactions that name MINING_REWARD as their sender, as any caller can build them
\* now: with or without a public key and a signature, of every kind of amount
RewardTransactions ==
    LET u == uuid4(db, pending)
    IN  {Transaction("MINING_REWARD", r, a, ks[1], ks[2], NoTime, NoNonce, now, u) :
            r \in Addresses, a \in {0, 30, 1000},
            ks \in {<<NoKey, NoSig>>, <<"pubA", <<"not hex">> >>}}

\* C24: in every state of the ledger a transaction whose sender is MINING_REWARD is
\* valid without signature and public key and is admitted by add_transaction without
\* a balance check, whatever its amount and recipient; sign_transaction leaves it as
\* it is, an empty signature included.
C24_RewardSenderBypass ==
    \A tx \in RewardTransactions :
        /\ is_valid(tx)
        /\ Admits(db, pending, tx)
        /\ RejectReason(db, pending, tx) = "none"
        /\ add_transaction(db, pending, tx) = Append(pending, tx)
        /\ \A k \in PrivateKeys :
                /\ sign_transaction(tx, k) = tx
                /\ tx.signature = NoSig => sign_transaction(tx, k).signature = NoSig

\* a caller's unsigned MINING_REWARD transaction of 30 to addrB was admitted behind
\* another one, while the MINING_REWARD name holds no balance
C24_Witness ==
    /\ last.op = "add" /\ last.result = "true"
    /\ Len(pending) = 2
    /\ pending[1].sender = "MINING_REWARD"
    /\ pending[2].sender = "MINING_REWARD" /\ pending[2].recipient = "addrB"
    /\ pending[2].amount = 30 /\ pending[2].signature = NoSig /\ pending[2].public_key = NoKey
    /\ Balance("MINING_REWARD") = 0


(***************************************************************************)
(* The ledger called directly (NodeService.create_transaction passes the   *)
(* caller's amount on unchecked) with amounts of either sign.              *)
(***************************************************************************)
SignedAmounts == {0 - 10, 0, 10}
\* largest number of operations in a behaviour of these calls
AmountSteps == 4

\* transfers signed by their sender's own key
SignedTransfers(d, pool, t, u) ==
    UNION {{sign_transaction(Transaction(generate_address(PublicOf(k)), r, a, PublicOf(k),
                                         NoSig, NoTime, NoNonce, t, u), k) :
                r \in Addresses \ {generate_address(PublicOf(k))}, a \in SignedAmounts} :
           k \in PrivateKeys}

\* Blockchain.add_transaction(transaction) with such a transfer
AddSignedTransfer ==
    /\ \E transaction \in SignedTransfers(db, pending, now, uuid4(db, pending)) :
        /\ pending' = add_transaction(db, pending, transaction)
        /\ last' = [op |-> "add",
                    result |-> IF Admits(db, pending, transaction) THEN "true" ELSE "false",
                    why |-> RejectReason(db, pending, transaction),
                    at |-> transaction.amount]
    /\ UNCHANGED <<db, difficulty, now, threads>>

NextAmounts ==
    /\ steps < AmountSteps
    /\ steps' = steps + 1
    /\ UNCHANGED <<contracts, tours, bookings>>
    /\ \/ AddSignedTransfer
       \/ MinePendingTransactions

SpecAmounts == Init /\ [][NextAmounts]_vars

\* C25: a validly signed transaction whose amount is zero or negative is admitted
\* exactly when the amount is at most the sender's confirmed balance minus its pending
\* spend, and a mined block applies every amount with its sign: the sender's balance
\* changes by -amount and the recipient's by +amount.
C25_NonPositiveAmounts ==
    /\ [](\A tx \in SignedTransfers(db, pending, now, uuid4(db, pending)) :
            tx.amount <= 0 =>
                (Admits(db, pending, tx)
                    <=> tx.amount <= Balance(tx.sender) - pending_spend(pending, tx.sender)))
    /\ [][/\ (steps' # steps /\ last'.op = "add" /\ last'.at <= 0 /\ last'.result = "true") =>
                /\ Len(pending') = Len(pending) + 1
                /\ pending'[Len(pending')].amount = last'.at
          /\ Did("mine", "block") =>
                \A a \in Addresses :
                    get_balance(db', a) - Balance(a)
                        = SeqSum([i \in 1..Len(pending) |->
                                     (IF pending[i].recipient = a THEN pending[i].amount ELSE 0)
                                     - (IF pending[i].sender = a THEN pending[i].amount ELSE 0)])
                          + (IF a \in Miners THEN mining_reward ELSE 0)]_vars

\* a block holding the transfer addrA -> addrB of -10 was mined to addrA from a store
\* without balances: addrA then holds the reward and 10 more, addrB holds -10
C25_Witness ==
    /\ last.op = "mine" /\ last.result = "block"
    /\ Len(Chain) = 2
    /\ Len(Chain[2].transactions_json) = 2
    /\ Chain[2].transactions_json[1].sender = "addrA"
    /\ Chain[2].transactions_json[1].recipient = "addrB"
    /\ Chain[2].transactions_json[1].amount = 0 - 10
    /\ Balance("addrA") = mining_reward + 10
    /\ Balance("addrB") = 0 - 10


\* C26: add_transaction, accepting or rejecting, changes no balance and no stored
\* block, so get_balance never counts the pool; the balance of an address changes only
\* in a successful mine whose block holds a transaction to or from that address.
C26_ConfirmedFundsOnly ==
    [][/\ (steps' # steps /\ last'.op = "add") =>
            /\ db'.blocks = db.blocks
            /\ db'.accounts = db.accounts
            /\ \A a \in Names : get_balance(db', a) = Balance(a)
       /\ \A a \in Names \cup DOMAIN db'.accounts :
            get_balance(db', a) # Balance(a) =>
                /\ Did("mine", "block")
                /\ \E i \in 1..Len(get_last_block(db').transactions_json) :
                      LET tx == get_last_block(db').transactions_json[i]
                      IN  tx.sender = a \/ tx.recipient = a]_vars

\* addrA holds 50 confirmed and has 30 pending for addrB after an accepted
\* add_transaction: the balances still read 50 and 0
C26_Witness ==
    /\ last.op = "add" /\ last.result = "true"
    /\ Len(pending) = 1
    /\ pending[1].sender = "addrA" /\ pending[1].recipient = "addrB" /\ pending[1].amount = 30
    /\ Balance("addrA") = 50
    /\ Balance("addrB") = 0


\* the hash of a Block object recomputed from its fields
BlockHash(block) ==
    block_calculate_hash(block.index, block.transactions, block.previous_hash,
                         block.timestamp, block.nonce)

\* C27: every step of a mine_block call adds one to the nonce, stores the hash of the
\* block with that nonce and changes no other field; every call returns, and it
\* returns with the smallest nonce at or above the starting nonce whose hash starts
\* with `difficulty` '0' characters and with the hash of that nonce.
C27_ProofOfWorkSearch ==
    /\ [][LET block == threads.mine.block[1]
              after == threads'.mine.block[1]
              before == threads'.mine.block[2]
          IN  /\ after # block =>
                    /\ threads.mine.pc = "pow"
                    /\ after.nonce = block.nonce + 1
                    /\ after.hash = BlockHash(after)
                    /\ [after EXCEPT !.nonce = block.nonce, !.hash = block.hash] = block
              /\ Returned =>
                    /\ after.nonce >= before.nonce
                    /\ after.nonce = before.nonce + last'.at
                    /\ LeadingZeros(after.hash.digits) >= difficulty
                    /\ after.hash = BlockHash(after)
                    /\ \A n \in before.nonce..(after.nonce - 1) :
                          LeadingZeros(BlockHash([before EXCEPT !.nonce = n]).digits) < difficulty
                    /\ [after EXCEPT !.nonce = before.nonce, !.hash = before.hash] = before
                    /\ after = mine_block(before, difficulty)]_vars
    /\ (threads.mine.pc = "pow") ~> (threads.mine.pc = "idle" /\ last.result = "returned")

\* a call with difficulty 2 on a block constructed with nonce 7 returned after more
\* than three iterations
C27_Witness ==
    /\ last.op = "mine_block" /\ last.result = "returned" /\ last.why = "first"
    /\ difficulty = 2
    /\ threads.mine.block[2].nonce = 7
    /\ last.at > 3
    /\ threads.mine.block[1].nonce = 7 + last.at


\* the elements of a list
Elements(seq) == {seq[i] : i \in 1..Len(seq)}

\* the received approvals of a contract
Received(c) == Get(c.conditions, "received_approvals", <<>>)

\* C28: add_approval returns True and appends the approver to received_approvals when
\* the contract is an ESCROW contract, the approver is one of its participants and has
\* not approved before; otherwise it returns False and changes nothing. Received
\* approvals never hold a duplicate or a non-participant, and approving twice leaves
\* the contract as approving once does.
C28_EscrowApprovals ==
    /\ [](\A i \in 1..Len(contracts) :
            /\ \A j, k \in 1..Len(Received(contracts[i])) :
                    Received(contracts[i])[j] = Received(contracts[i])[k] => j = k
            /\ Elements(Received(contracts[i])) \subseteq Elements(contracts[i].participants)
            /\ \A a \in Addresses :
                    LET once == add_approval(contracts[i], a)
                        twice == add_approval(once.contract, a)
                    IN  twice.contract = once.contract /\ ~twice.ok)
    /\ [][(steps' # steps /\ last'.op = "approve" /\ last'.at > 0) =>
            LET c == contracts[last'.at]
                approver == last'.why
            IN  /\ pending' = pending
                /\ \A j \in 1..Len(contracts) : j # last'.at => contracts'[j] = contracts[j]
                /\ Len(contracts') = Len(contracts)
                /\ IF /\ c.contract_type = "ESCROW"
                      /\ approver \in Elements(c.participants)
                      /\ approver \notin Elements(Received(c))
                   THEN /\ last'.result = "true"
                        /\ Received(contracts'[last'.at]) = Append(Received(c), approver)
                        /\ [contracts'[last'.at] EXCEPT !.conditions = c.conditions] = c
                   ELSE /\ last'.result = "false"
                        /\ contracts' = contracts]_vars

\* addrA approved an ESCROW contract of addrA and addrB a second time and was refused;
\* the contract holds its one approval
C28_Witness ==
    /\ last.op = "approve" /\ last.result = "false" /\ last.why = "addrA"
    /\ last.at \in 1..Len(contracts)
    /\ contracts[last.at].contract_type = "ESCROW"
    /\ contracts[last.at].participants = <<"addrA", "addrB">>
    /\ Received(contracts[last.at]) = <<"addrA">>


\* C29: a mine whose save_block fails leaves the pending pool exactly as it was before
\* the call: the same transactions in the same order, and no mining-reward transaction
\* left behind for the retry to mine a second time.
C29_FailedMineRestoresPool ==
    [][(steps' # steps /\ last'.op = "mine" /\ last'.why = "save_failed") =>
            pending' = pending]_vars


\* the sum of the balances of the accounts in S
RECURSIVE SumBalances(_, _)
SumBalances(d, S) ==
    IF S = {} THEN 0
    ELSE LET a == CHOOSE x \in S : TRUE
         IN  d.accounts[a] + SumBalances(d, S \ {a})

\* C30: in every state reached through add_transaction and mine_pending_transactions
\* the balances of all accounts sum to mining_reward times the number of blocks with
\* index >= 1, and each of these blocks holds exactly one transaction with sender
\* MINING_REWARD, of amount mining_reward.
C30_SupplyConserved ==
    /\ SumBalances(db, DOMAIN db.accounts)
            = mining_reward * Cardinality({r \in db.blocks : r.block_index >= 1})
    /\ \A r \in db.blocks :
            r.block_index >= 1 =>
                /\ Cardinality({i \in 1..Len(r.transactions_json) :
                                    r.transactions_json[i].sender = "MINING_REWARD"}) = 1
                /\ \A i \in 1..Len(r.transactions_json) :
                        r.transactions_json[i].sender = "MINING_REWARD" =>
                            r.transactions_json[i].amount = mining_reward


\* C31: after any sequence of add_transaction and mine_pending_transactions calls,
\* whatever amounts the admitted transactions carry, no address has a negative
\* confirmed balance.
C31_NoOverdraft == \A a \in DOMAIN db.accounts : db.accounts[a] >= 0


(***************************************************************************)
(* Two mine_pending_transactions calls in two request threads. A list      *)
(* object is an entry of threads.lists; threads.pool is the list that      *)
(* Blockchain.pending_transactions is bound to, and `pending` its content. *)
(* A Block keeps the list it was given, not a copy. save_block runs here   *)
(* without interruption.                                                   *)
(***************************************************************************)
MineCalls == {1, 2}

NoMines ==
    [mine  |-> [i \in MineCalls |-> [pc |-> "idle", block |-> <<>>, list |-> 0, ok |-> FALSE]],
     lists |-> << <<>> >>,
     pool  |-> 1]

\* the transactions of all list objects
RECURSIVE AllLists(_)
AllLists(ls) == IF ls = <<>> THEN <<>> ELSE Head(ls) \o AllLists(Tail(ls))

\* str(uuid.uuid4()) for a transaction created now
MinerNonce == uuid4(db, AllLists(threads.lists))

InitMines ==
    /\ now = 2
    /\ db = ConcStore
    /\ \E pool \in {<<>>,
                    <<sign_transaction(Transaction("addrA", "addrB", 10, "pubA", NoSig, NoTime,
                                                   NoNonce, 2, uuid4(ConcStore, <<>>)), "privA")>>} :
        /\ pending = pool
        /\ threads = [NoMines EXCEPT !.lists = <<pool>>]
    /\ difficulty = InitDifficulty
    /\ last = [op |-> "init", result |-> "ok", why |-> "none", at |-> 0]
    /\ steps = 0
    /\ contracts = <<>>
    /\ tours = <<>>
    /\ bookings = <<>>

\* the Block object of call i, with the present content of the list it refers to
MinerBlock(i) ==
    [threads.mine[i].block[1] EXCEPT !.transactions = threads.lists[threads.mine[i].list]]

\* lines 113-118: the reward transaction is appended to the pool list
MinerAppendReward(i) ==
    /\ threads.mine[i].pc = "idle"
    /\ \E mining_reward_address \in Addresses :
        LET reward_transaction ==
                Transaction("MINING_REWARD", mining_reward_address, mining_reward,
                            NoKey, NoSig, NoTime, NoNonce, now, MinerNonce)
        IN  /\ pending' = Append(pending, reward_transaction)
            /\ threads' = [threads EXCEPT !.lists[threads.pool] = Append(@, reward_transaction),
                                          !.mine[i].pc = "build"]
    /\ last' = [op |-> "mine_reward", result |-> "ok", why |-> "none", at |-> i]
    /\ UNCHANGED <<db, difficulty, now>>

\* lines 120-126: the tip is read and the Block is constructed over the pool list
MinerBuildBlock(i) ==
    /\ threads.mine[i].pc = "build"
    /\ LET latest_block == get_latest_block(db, now, MinerNonce)
           new_block == Block(latest_block.index + 1, pending, latest_block.hash, NoTime, 0, now)
       IN  threads' = [threads EXCEPT !.mine[i].pc = "pow",
                                      !.mine[i].block = <<new_block>>,
                                      !.mine[i].list = threads.pool]
    /\ last' = [op |-> "mine_build", result |-> "ok", why |-> "none", at |-> i]
    /\ UNCHANGED <<db, pending, difficulty, now>>

\* line 128: the proof-of-work loop
MinerProofOfWork(i) ==
    /\ threads.mine[i].pc = "pow"
    /\ difficulty \in 0..HashDigits
    /\ threads' = [threads EXCEPT !.mine[i].pc = "save",
                                  !.mine[i].block = <<mine_block(MinerBlock(i), difficulty)>>]
    /\ last' = [op |-> "mine_pow", result |-> "ok", why |-> "none", at |-> i]
    /\ UNCHANGED <<db, pending, difficulty, now>>

\* line 131: save_block(new_block)
MinerSaveBlock(i) ==
    /\ threads.mine[i].pc = "save"
    /\ LET saved == save_block(db, MinerBlock(i), [kind |-> "none", at |-> 0])
       IN  /\ db' = saved.db
           /\ threads' = [threads EXCEPT !.mine[i].pc = "clear", !.mine[i].ok = saved.ok]
    /\ last' = [op |-> "mine_save", result |-> "ok", why |-> "none", at |-> i]
    /\ UNCHANGED <<pending, difficulty, now>>

\* lines 133-138: on success the pool attribute is bound to a new empty list
MinerClearPool(i) ==
    /\ threads.mine[i].pc = "clear"
    /\ IF threads.mine[i].ok
       THEN /\ pending' = PoolAfterMine(pending, TRUE)
            /\ threads' = [threads EXCEPT !.lists = Append(@, <<>>),
                                          !.pool = Len(threads.lists) + 1,
                                          !.mine[i].pc = "done"]
       ELSE /\ pending' = PoolAfterMine(pending, FALSE)
            /\ threads' = [threads EXCEPT !.mine[i].pc = "done"]
    /\ last' = [op |-> "mine", result |-> MineReturn(threads.mine[i].ok),
                why |-> IF threads.mine[i].ok THEN "saved" ELSE "save_failed", at |-> i]
    /\ UNCHANGED <<db, difficulty, now>>

NextMines ==
    /\ steps' = steps + 1
    /\ UNCHANGED <<contracts, tours, bookings>>
    /\ \/ \E i \in MineCalls : MinerAppendReward(i)
       \/ \E i \in MineCalls : MinerBuildBlock(i)
       \/ \E i \in MineCalls : MinerProofOfWork(i)
       \/ \E i \in MineCalls : MinerSaveBlock(i)
       \/ \E i \in MineCalls : MinerClearPool(i)

SpecMines == InitMines /\ [][NextMines]_vars

\* C32: when two mine calls have built blocks with the same index, at most one of them
\* reports success, and in every state every balance equals the replay of the stored
\* chain (the deltas and the reward of a block that is not stored are not applied).
C32_ConcurrentMinesKeepBalances ==
    /\ \A a \in Addresses : get_balance(db, a) = Replay(get_chain(db), a)
    /\ \A i, j \in MineCalls :
            (/\ i # j
             /\ threads.mine[i].pc = "done" /\ threads.mine[j].pc = "done"
             /\ threads.mine[i].block[1].index = threads.mine[j].block[1].index)
                => ~(threads.mine[i].ok /\ threads.mine[j].ok)


\* C33: a transaction admitted after the proof-of-work of a mine in progress and before
\* its save does not change the block: every stored block with index >= 1 stores the
\* hash recomputed over its stored transaction list and has the mining-reward
\* transaction as its last transaction.
C33_MinedBlockIsolated ==
    \A r \in db.blocks :
        r.block_index >= 1 =>
            /\ r.hash = Recomputed(r)
            /\ r.transactions_json[Len(r.transactions_json)].sender = "MINING_REWARD"


\* this step is an execute call on the contract at position i
ExecuteAt(i) == steps' # steps /\ last'.op = "execute" /\ last'.at = i

\* C34: a contract that is not RECURRING pays at most once: an execute call on it
\* succeeds only while its status is active and leaves it executed; once it is executed
\* it stays executed, and every later execute returns success = False and changes
\* neither the contract nor the pool, nor does check_and_execute_contracts; a contract
\* whose status is failed stays failed and no execute on it succeeds.
C34_PaysAtMostOnce ==
    [][\A i \in 1..Len(contracts) :
          contracts[i].contract_type # "RECURRING" =>
              /\ (ExecuteAt(i) /\ last'.result = "true") =>
                    /\ contracts[i].status = "active"
                    /\ contracts'[i].status = "executed"
              /\ contracts[i].status = "executed" =>
                    /\ contracts'[i].status = "executed"
                    /\ contracts'[i].executed_at = contracts[i].executed_at
                    /\ ExecuteAt(i) =>
                          /\ last'.result = "false"
                          /\ contracts' = contracts
                          /\ pending' = pending
                    /\ (steps' # steps /\ last'.op = "check_and_execute") =>
                          contracts'[i] = contracts[i]
              /\ contracts[i].status = "failed" =>
                    /\ contracts'[i].status = "failed"
                    /\ ExecuteAt(i) => (last'.result = "false" /\ pending' = pending)]_vars

\* execute was refused on an executed TIME_LOCK contract whose release time has passed
C34_Witness ==
    /\ last.op = "execute" /\ last.result = "false" /\ last.why = "not_met"
    /\ last.at \in 1..Len(contracts)
    /\ contracts[last.at].contract_type = "TIME_LOCK"
    /\ contracts[last.at].status = "executed"
    /\ now >= contracts[last.at].conditions["release_time"]


\* the limit check_conditions compares payments_made with
max_payments_checked(c) == Get(c.conditions, "max_payments", Infinity)

\* the limit execute compares payments_made with
max_payments_executed(c) == Get(c.conditions, "max_payments", 1)

\* payments_made and last_payment_time as both methods read them
payments_made(c) == Get(c.conditions, "payments_made", 0)
last_payment(c) == Get(c.conditions, "last_payment_time", c.created_at)

\* payments_made stays within the limit and the status is executed exactly when the
\* limit is reached
RecurringWithinLimit ==
    \A i \in 1..Len(contracts) :
        contracts[i].contract_type = "RECURRING" =>
            /\ payments_made(contracts[i]) <= max_payments_executed(contracts[i])
            /\ (contracts[i].status = "executed")
                   <=> (payments_made(contracts[i]) >= max_payments_executed(contracts[i]))

\* a payment is counted one at a time, and the next one at least interval after the last
RecurringIntervalKept ==
    [][\A i \in 1..Len(contracts) :
          (/\ contracts[i].contract_type = "RECURRING"
           /\ payments_made(contracts'[i]) # payments_made(contracts[i])) =>
              /\ payments_made(contracts'[i]) = payments_made(contracts[i]) + 1
              /\ now - last_payment(contracts[i]) >= Get(contracts[i].conditions, "interval", 0)
              /\ last_payment(contracts'[i]) = now]_vars

\* check_conditions and execute apply the same limit to every RECURRING contract
RecurringSameLimit ==
    \A i \in 1..Len(contracts) :
        contracts[i].contract_type = "RECURRING" =>
            max_payments_checked(contracts[i]) = max_payments_executed(contracts[i])

\* C35: a RECURRING contract never pays more often than allowed: payments_made never
\* exceeds max_payments, two consecutive successful executions are at least interval
\* apart, the status is executed exactly when payments_made reaches max_payments, and
\* check_conditions and execute apply the same limit, also when max_payments is absent.
C35_RecurringLimit ==
    /\ []RecurringWithinLimit
    /\ RecurringIntervalKept
    /\ []RecurringSameLimit


\* the pool holds a payment of contract c: a transaction from CONTRACT:<contract_id> for
\* the contract amount
HoldsPaymentOf(pool, c) ==
    \E k \in 1..Len(pool) :
        /\ pool[k].sender = "CONTRACT:" \o c.contract_id
        /\ pool[k].amount = c.amount

\* C36: an execution that reports success has queued the payment: after an execute call
\* that returns success = True the pending pool holds a transaction from
\* CONTRACT:<contract_id> for the contract amount, one more transaction than before.
C36_SuccessQueuesPayment ==
    [][\A i \in 1..Len(contracts) :
          (ExecuteAt(i) /\ last'.result = "true") =>
              /\ Len(pending') = Len(pending) + 1
              /\ HoldsPaymentOf(pending', contracts[i])]_vars


(***************************************************************************)
(* Tours and bookings: travel/manager.py behind the routes of              *)
(* travel/routes.py.  uuid4 for a tour or a booking is its position in the *)
(* manager's dictionary, which never loses an entry.                       *)
(***************************************************************************)

TravelSteps == 5

\* max_participants of the tours created, and the price of every tour
TourSizes == {1, 2}
TourPrice == 10

\* num_participants of a booking request: the route passes the JSON value on unchecked
PartySizes == {0, 1, 2}

\* the users who book
Travellers == {"addrA", "addrB"}

\* Tour.__init__
Tour(tour_id, price, max_participants) ==
    [tour_id          |-> tour_id,
     price            |-> price,
     max_participants |-> max_participants,
     is_active        |-> TRUE,
     bookings         |-> <<>>,
     total_revenue    |-> 0]

\* the entry available_spots of Tour.to_dict
available_spots(tour) == tour.max_participants - Len(tour.bookings)

\* Booking.__init__
Booking(booking_id, tour_id, user_address, num_participants) ==
    [booking_id       |-> booking_id,
     tour_id          |-> tour_id,
     user_address     |-> user_address,
     num_participants |-> num_participants,
     status           |-> "pending",
     payment_tx_hash  |-> "None",
     total_price      |-> 0,
     refund_tx_hash   |-> "None"]

\* TravelManager.get_tour and get_booking: the position of the id, 0 for None
get_tour(ts, tour_id) == IF tour_id \in 1..Len(ts) THEN tour_id ELSE 0
get_booking(bs, booking_id) == IF booking_id \in 1..Len(bs) THEN booking_id ELSE 0

\* list.remove(x): the list without the first occurrence of x
RECURSIVE Remove(_, _)
Remove(seq, x) ==
    IF seq = <<>> THEN <<>>
    ELSE IF Head(seq) = x THEN Tail(seq)
    ELSE <<Head(seq)>> \o Remove(Tail(seq), x)

\* TravelManager.create_booking: the manager afterwards and the pair returned
create_booking(ts, bs, tour_id, user_address, num_participants) ==
    LET i == get_tour(ts, tour_id)
    IN  IF i = 0
        THEN [tours |-> ts, bookings |-> bs, booking |-> 0, message |-> "Tour not found"]
        ELSE IF ~ts[i].is_active
        THEN [tours |-> ts, bookings |-> bs, booking |-> 0, message |-> "Tour is not active"]
        ELSE IF num_participants > ts[i].max_participants - Len(ts[i].bookings)
        THEN [tours |-> ts, bookings |-> bs, booking |-> 0, message |-> "Not enough spots"]
        ELSE LET id == Len(bs) + 1
                 booking == [Booking(id, tour_id, user_address, num_participants)
                                EXCEPT !.total_price = num_participants * ts[i].price]
             IN  [tours    |-> [ts EXCEPT ![i].bookings = Append(@, id)],
                  bookings |-> Append(bs, booking),
                  booking  |-> id,
                  message  |-> "Booking created"]

\* TravelManager.confirm_booking
confirm_booking(bs, booking_id, payment_tx_hash) ==
    LET b == get_booking(bs, booking_id)
    IN  IF b = 0 THEN [bookings |-> bs, ok |-> FALSE, message |-> "Booking not found"]
        ELSE [bookings |-> [bs EXCEPT ![b].status = "confirmed",
                                      ![b].payment_tx_hash = payment_tx_hash],
              ok |-> TRUE, message |-> "Booking confirmed"]

\* TravelManager.cancel_booking
cancel_booking(ts, bs, booking_id, refund_tx_hash) ==
    LET b == get_booking(bs, booking_id)
    IN  IF b = 0
        THEN [tours |-> ts, bookings |-> bs, ok |-> FALSE, message |-> "Booking not found"]
        ELSE IF bs[b].status = "cancelled"
        THEN [tours |-> ts, bookings |-> bs, ok |-> FALSE,
              message |-> "Booking already cancelled"]
        ELSE LET i == get_tour(ts, bs[b].tour_id)
             IN  [tours    |-> IF i # 0 /\ \E k \in 1..Len(ts[i].bookings) :
                                               ts[i].bookings[k] = booking_id
                               THEN [ts EXCEPT ![i].bookings = Remove(@, booking_id)]
                               ELSE ts,
                  bookings |-> [bs EXCEPT ![b].status = "cancelled",
                                          ![b].refund_tx_hash = refund_tx_hash],
                  ok |-> TRUE, message |-> "Booking cancelled"]

\* TravelManager.complete_booking
complete_booking(bs, booking_id) ==
    LET b == get_booking(bs, booking_id)
    IN  IF b = 0 THEN [bookings |-> bs, ok |-> FALSE, message |-> "Booking not found"]
        ELSE [bookings |-> [bs EXCEPT ![b].status = "completed"],
              ok |-> TRUE, message |-> "Booking completed"]

\* the booking ids a request may name: every booking made and one that does not exist
BookingIds == 1..(Len(bookings) + 1)

\* the tour ids a request may name: every tour made and one that does not exist
TourIds == 1..(Len(tours) + 1)

InitTravel ==
    /\ now = 1
    /\ db = ConcStore
    /\ pending = <<>>
    /\ difficulty = InitDifficulty
    /\ last = [op |-> "init", result |-> "ok", why |-> "none", at |-> 0]
    /\ steps = 0
    /\ threads = NoCalls
    /\ contracts = <<>>
    /\ tours = <<>>
    /\ bookings = <<>>

\* POST /admin/tour/create: TravelManager.create_tour
CreateTour ==
    /\ \E max_participants \in TourSizes :
        /\ tours' = Append(tours, Tour(Len(tours) + 1, TourPrice, max_participants))
        /\ last' = [op |-> "create_tour", result |-> "true", why |-> "Tour created",
                    at |-> Len(tours) + 1]
    /\ UNCHANGED bookings

\* POST /booking/create
CreateBooking ==
    \E tour_id \in TourIds, user_address \in Travellers, num_participants \in PartySizes :
        LET r == create_booking(tours, bookings, tour_id, user_address, num_participants)
        IN  /\ tours' = r.tours
            /\ bookings' = r.bookings
            /\ last' = [op |-> "create_booking",
                        result |-> IF r.booking # 0 THEN "true" ELSE "false",
                        why |-> r.message, at |-> r.booking]

\* POST /booking/<booking_id>/confirm with a payment_tx_hash: confirm_booking, then the
\* price of the booking is added to the revenue of its tour
ConfirmBooking ==
    \E booking_id \in BookingIds :
        LET r == confirm_booking(bookings, booking_id, "paid")
        IN  /\ bookings' = r.bookings
            /\ tours' = IF r.ok
                        THEN [tours EXCEPT ![bookings[booking_id].tour_id].total_revenue =
                                               @ + bookings[booking_id].total_price]
                        ELSE tours
            /\ last' = [op |-> "confirm_booking",
                        result |-> IF r.ok THEN "true" ELSE "false",
                        why |-> r.message, at |-> booking_id]

\* POST /booking/<booking_id>/cancel
CancelBooking ==
    \E booking_id \in BookingIds :
        LET r == cancel_booking(tours, bookings, booking_id, "None")
        IN  /\ tours' = r.tours
            /\ bookings' = r.bookings
            /\ last' = [op |-> "cancel_booking",
                        result |-> IF r.ok THEN "true" ELSE "false",
                        why |-> r.message, at |-> booking_id]

\* TravelManager.complete_booking(booking_id)
CompleteBooking ==
    /\ \E booking_id \in BookingIds :
        LET r == complete_booking(bookings, booking_id)
        IN  /\ bookings' = r.bookings
            /\ last' = [op |-> "complete_booking",
                        result |-> IF r.ok THEN "true" ELSE "false",
                        why |-> r.message, at |-> booking_id]
    /\ UNCHANGED tours

NextTravel ==
    /\ steps < TravelSteps
    /\ steps' = steps + 1
    /\ \/ CreateTour
       \/ CreateBooking
       \/ ConfirmBooking
       \/ CancelBooking
       \/ CompleteBooking
    /\ UNCHANGED <<db, pending, difficulty, now, threads, contracts>>

SpecTravel == InitTravel /\ [][NextTravel]_vars

\* the sum of num_participants over the bookings of tour_id that are not cancelled
RECURSIVE Participants(_, _)
Participants(bs, tour_id) ==
    IF bs = <<>> THEN 0
    ELSE (IF Head(bs).tour_id = tour_id /\ Head(bs).status # "cancelled"
          THEN Head(bs).num_participants ELSE 0)
         + Participants(Tail(bs), tour_id)

\* C37: for every tour the participants of its bookings that are not cancelled never
\* exceed max_participants, and the available_spots reported are never negative.
C37_TourCapacity ==
    \A i \in 1..Len(tours) :
        /\ Participants(bookings, tours[i].tour_id) <= tours[i].max_participants
        /\ available_spots(tours[i]) >= 0


\* the bookings list of every tour holds exactly the bookings of that tour that are not
\* cancelled
BookingsListed ==
    \A i \in 1..Len(tours), b \in 1..Len(bookings) :
        (bookings[b].booking_id \in Elements(tours[i].bookings))
            <=> (bookings[b].tour_id = tours[i].tour_id /\ bookings[b].status # "cancelled")

\* a cancelled booking stays cancelled, and confirming, completing or cancelling it is
\* rejected
CancelledIsFinal ==
    [][\A b \in 1..Len(bookings) :
          bookings[b].status = "cancelled" =>
              /\ bookings'[b].status = "cancelled"
              /\ (/\ steps' # steps
                  /\ last'.op \in {"confirm_booking", "complete_booking", "cancel_booking"}
                  /\ last'.at = b) => last'.result = "false"]_vars

\* C38: after any sequence of create_booking, confirm_booking, complete_booking and
\* cancel_booking a tour's bookings list holds exactly its bookings that are not
\* cancelled, and a cancelled booking stays cancelled: it cannot be confirmed or
\* completed and cancelling it again is rejected.
C38_BookingLifecycle ==
    /\ []BookingsListed
    /\ CancelledIsFinal

====
